---- MODULE Spec2Model ----
(***************************************************************************)
(* Model of the mapper scanner (skills/mapper/scripts/scan-codebase.py):   *)
(* scan_directory with its fingerprint cache, task runner and aggregator.  *)
(*                                                                         *)
(* Representation.  A str is a tuple of one-character strings, bytes are a *)
(* tuple of integers 0..255, a decoded text is a tuple of code points.     *)
(* A dict is a function whose DOMAIN is its key set; an optional key of a  *)
(* dict (content_hash) is a field that is present or absent in the record. *)
(* SHA-256 is taken to be collision-free: a digest is the pair             *)
(* <<"sha256", input>> of the exact byte sequence fed to the hasher, so    *)
(* two digests are equal exactly when the hashed inputs are equal.         *)
(***************************************************************************)
EXTENDS Integers, Sequences, FiniteSets, TLC

\* An optional value (a Python value that may be None, the result of
\* dict.get) is a sequence of no or one element
None == <<>>

Some(x) == <<x>>

\* a content_hash that is None
NoHash == <<>>

Max(a, b) == IF a >= b THEN a ELSE b

Min(a, b) == IF a <= b THEN a ELSE b

\* data[:n]
Take(s, n) == SubSeq(s, 1, Min(n, Len(s)))

\* data[-n:]
LastN(s, n) == SubSeq(s, Max(1, Len(s) - n + 1), Len(s))

Range(s) == {s[i] : i \in DOMAIN s}

RECURSIVE Flatten(_)
Flatten(ss) == IF ss = <<>> THEN <<>> ELSE Head(ss) \o Flatten(Tail(ss))

(***************************************************************************)
(* Strings.                                                                *)
(***************************************************************************)

\* The characters the model uses, in ascending code point order: Python
\* compares str values code point by code point.
CodePoints ==
    <<"*", "-", ".", "/", "0", "1", "2", "3", "4", "5", "6", "7", "8", "9",
      "?", "A", "B", "M", "R", "_",
      "a", "b", "c", "d", "e", "f", "g", "h", "i", "j", "k", "l", "m",
      "n", "o", "p", "q", "r", "s", "t", "u", "v", "w", "x", "y", "z">>

ord(c) == CHOOSE i \in DOMAIN CodePoints : CodePoints[i] = c

\* s < t for two str values
RECURSIVE StrLess(_, _)
StrLess(s, t) ==
    IF t = <<>> THEN FALSE
    ELSE IF s = <<>> THEN TRUE
    ELSE IF Head(s) = Head(t) THEN StrLess(Tail(s), Tail(t))
    ELSE ord(Head(s)) < ord(Head(t))

Digit(d) == <<"0", "1", "2", "3", "4", "5", "6", "7", "8", "9">>[d + 1]

\* str(n) for an int n >= 0
RECURSIVE str(_)
str(n) == IF n < 10 THEN <<Digit(n)>> ELSE str(n \div 10) \o <<Digit(n % 10)>>

\* str(x) for a float x: the model's modification times are whole seconds,
\* which Python prints with a trailing ".0"
str_float(n) == str(n) \o <<".", "0">>

UpperCase == <<"A", "B", "M", "R">>

LowerCase == <<"a", "b", "m", "r">>

\* str.lower()
lower(s) ==
    [i \in DOMAIN s |->
        IF \E k \in DOMAIN UpperCase : UpperCase[k] = s[i]
        THEN LowerCase[CHOOSE k \in DOMAIN UpperCase : UpperCase[k] = s[i]]
        ELSE s[i]]

\* s.split(sep) for a one-character separator
RECURSIVE Split(_, _)
Split(s, sep) ==
    IF \A i \in DOMAIN s : s[i] # sep THEN <<s>>
    ELSE LET k == CHOOSE i \in DOMAIN s :
                      s[i] = sep /\ \A j \in 1..(i - 1) : s[j] # sep
         IN  <<SubSeq(s, 1, k - 1)>> \o Split(SubSeq(s, k + 1, Len(s)), sep)

\* sep.join(parts)
RECURSIVE Join(_, _)
Join(parts, sep) ==
    IF parts = <<>> THEN <<>>
    ELSE IF Len(parts) = 1 THEN parts[1]
    ELSE parts[1] \o <<sep>> \o Join(Tail(parts), sep)

\* fnmatch.fnmatch(name, pat) on POSIX (no case folding) for patterns made of
\* literal characters, "*" and "?"; "*" also matches "/"
RECURSIVE fnmatch(_, _)
fnmatch(name, pat) ==
    IF pat = <<>> THEN name = <<>>
    ELSE IF Head(pat) = "*"
         THEN \/ fnmatch(name, Tail(pat))
              \/ name # <<>> /\ fnmatch(Tail(name), pat)
    ELSE IF name = <<>> THEN FALSE
    ELSE /\ (Head(pat) = "?" \/ Head(pat) = Head(name))
         /\ fnmatch(Tail(name), Tail(pat))

(***************************************************************************)
(* Paths.                                                                  *)
(***************************************************************************)

\* Path(path).parts of a relative POSIX path
parts(path) == SelectSeq(Split(path, "/"), LAMBDA seg : seg # <<>>)

\* Path(path).name
name(path) == LET ps == parts(path) IN IF ps = <<>> THEN <<>> ELSE ps[Len(ps)]

\* Path(path).suffix: from the last dot of the name, unless that dot is the
\* first or the last character of the name
suffix(path) ==
    LET n    == name(path)
        dots == {i \in DOMAIN n : n[i] = "."}
    IN  IF dots = {} THEN <<>>
        ELSE LET i == CHOOSE d \in dots : \A e \in dots : e <= d
             IN  IF 1 < i /\ i < Len(n) THEN SubSeq(n, i, Len(n)) ELSE <<>>

group_label(path, depth) ==
    LET ps  == parts(path)
        key == IF Len(ps) <= depth THEN Join(ps, "/")
               ELSE Join(SubSeq(ps, 1, depth), "/")
    IN  IF key = <<>> THEN <<".">> ELSE key

(***************************************************************************)
(* File contents.  What read_bytes returns is a content value: either raw  *)
(* bytes, [kind |-> "bytes", bytes |-> <<...>>], or the cache file that    *)
(* save_cache wrote, [kind |-> "json" or "gzip", data |-> the cache dict]. *)
(* json.dump is injective on the dict, so the dict stands for the bytes of *)
(* the cache file; its length in bytes is computed by JsonSize.            *)
(***************************************************************************)

Bytes(bs) == [kind |-> "bytes", bytes |-> bs]

\* len of the hexdigest of a SHA-256 digest
HEX_DIGEST_LEN == 64

\* sum(fn.values())
RECURSIVE SumOf(_)
SumOf(fn) ==
    IF DOMAIN fn = {} THEN 0
    ELSE LET x == CHOOSE y \in DOMAIN fn : TRUE
         IN  fn[x] + SumOf([y \in DOMAIN fn \ {x} |-> fn[y]])

\* Number of characters json.dump(entry, indent=2) writes for one cache
\* entry nested in "files" (fields at indent 6, closing brace at indent 4)
JsonEntrySize(e) ==
    LET field(k) ==
            CASE k = "mtime"        -> 6 + 7 + 2 + Len(str_float(e.mtime))
              [] k = "size"         -> 6 + 6 + 2 + Len(str(e.size))
              [] k = "tokens"       -> 6 + 8 + 2 + Len(str(e.tokens))
              [] k = "content_hash" -> 6 + 14 + 2 + (HEX_DIGEST_LEN + 2)
        n == Cardinality(DOMAIN e)
    IN  2 + SumOf([k \in DOMAIN e |-> field(k)]) + 2 * (n - 1) + 6

\* Number of characters of the value of "files"
JsonFilesSize(fmap) ==
    IF DOMAIN fmap = {} THEN 2
    ELSE LET line(p) == 4 + (Len(p) + 2) + 2 + JsonEntrySize(fmap[p])
             n == Cardinality(DOMAIN fmap)
         IN  2 + SumOf([p \in DOMAIN fmap |-> line(p)]) + 2 * (n - 1) + 4

\* Number of characters json.dump(cache, indent=2) writes (save_cache)
JsonSize(cache) ==
      2
    + (2 + 9 + 2 + Len(str(cache.version)))
    + (2 + 7 + 2 + JsonFilesSize(cache.files))
    + (2 + 10 + 2 + (Len(cache.encoding) + 2))
    + (2 + 11 + 2 + (Len(cache.tokenizer) + 2))
    + (2 + 17 + 2 + Len(str(cache.max_file_tokens)))
    + (2 + 15 + 2 + Len(str(cache.max_file_size)))
    + (2 + 11 + 2 + (Len(cache.hash_mode) + 2))
    + (2 + 16 + 2 + (IF cache.cache_compress THEN 4 ELSE 5))
    + 2 * 7
    + 2

\* Length of the gzip stream of the dump: 10 header bytes, the stored file
\* name with its NUL terminator, the deflate data (stand-in: half the text)
\* and the 8-byte trailer
GzipSize(cache) == 10 + 16 + (JsonSize(cache) \div 2) + 8

\* len(data)
ByteLen(data) ==
    CASE data.kind = "bytes" -> Len(data.bytes)
      [] data.kind = "json"  -> JsonSize(data.data)
      [] data.kind = "gzip"  -> GzipSize(data.data)

\* b"\x00" in data[:n].  json.dump writes no NUL; a gzip stream written by
\* gzip.open carries the NUL-terminated file name in its header.
HasNul(data, n) ==
    CASE data.kind = "bytes" -> 0 \in Range(Take(data.bytes, n))
      [] data.kind = "json"  -> FALSE
      [] data.kind = "gzip"  -> TRUE

\* Length of the UTF-8 sequence a lead byte announces, 0 for a byte that
\* cannot start a sequence
SeqLen(b) ==
    IF b < 128 THEN 1
    ELSE IF 194 <= b /\ b <= 223 THEN 2
    ELSE IF 224 <= b /\ b <= 239 THEN 3
    ELSE IF 240 <= b /\ b <= 244 THEN 4
    ELSE 0

WellFormedAt(bs) ==
    LET n == SeqLen(Head(bs))
    IN  /\ n > 0
        /\ Len(bs) >= n
        /\ \A i \in 2..n : 128 <= bs[i] /\ bs[i] <= 191

CodePointAt(bs) ==
    LET n == SeqLen(Head(bs))
    IN  CASE n = 1 -> bs[1]
          [] n = 2 -> (bs[1] - 192) * 64 + (bs[2] - 128)
          [] n = 3 -> (bs[1] - 224) * 4096 + (bs[2] - 128) * 64 + (bs[3] - 128)
          [] n = 4 -> (bs[1] - 240) * 262144 + (bs[2] - 128) * 4096
                          + (bs[3] - 128) * 64 + (bs[4] - 128)

\* bytes.decode("utf-8") succeeds
RECURSIVE Utf8Valid(_)
Utf8Valid(bs) ==
    IF bs = <<>> THEN TRUE
    ELSE /\ WellFormedAt(bs)
         /\ Utf8Valid(SubSeq(bs, SeqLen(Head(bs)) + 1, Len(bs)))

\* bytes.decode("utf-8", errors="ignore"): ill-formed bytes are dropped
RECURSIVE Utf8Ignore(_)
Utf8Ignore(bs) ==
    IF bs = <<>> THEN <<>>
    ELSE IF WellFormedAt(bs)
         THEN <<CodePointAt(bs)>> \o Utf8Ignore(SubSeq(bs, SeqLen(Head(bs)) + 1, Len(bs)))
         ELSE Utf8Ignore(Tail(bs))

\* A text is [kind |-> "str", cps |-> code points], or the cache dump
\* itself, which is ASCII (json.dump escapes everything else)
decode_text(data) ==
    IF data.kind = "bytes"
    THEN [kind |-> "str", cps |-> Utf8Ignore(data.bytes)]
    ELSE IF data.kind = "json" THEN data
    ELSE [kind |-> "str", cps |-> <<>>]

\* len(text)
TextLen(text) == IF text.kind = "str" THEN Len(text.cps) ELSE JsonSize(text.data)

heuristic_tokens(text) == Max(1, TextLen(text) \div 4)

\* whether `import tiktoken` succeeded
TIKTOKEN_AVAILABLE == TRUE

\* the encoding names tiktoken.get_encoding accepts
KnownEncodings == {"cl100k_base", "o200k_base"}

\* len(encoding.encode(text)): the encoder is a library outside the
\* repository; the model takes a fixed function of the text per encoding
tiktoken_len(text, encoding_name) ==
    IF encoding_name = "cl100k_base" THEN (TextLen(text) + 1) \div 2
    ELSE (TextLen(text) + 2) \div 3

\* get_encoding(name) returns without raising
get_encoding_ok(encoding_name) ==
    TIKTOKEN_AVAILABLE /\ encoding_name \in KnownEncodings

\* "<|endoftext|>", a special token of both encodings
SPECIAL_TOKEN == <<60, 124, 101, 110, 100, 111, 102, 116, 101, 120, 116, 124, 62>>

IsInfix(sub, s) ==
    \E i \in 1..(Len(s) - Len(sub) + 1) : SubSeq(s, i, i + Len(sub) - 1) = sub

\* encoding.encode(text) raises ValueError: with the default
\* disallowed_special="all", tiktoken refuses a text that holds a special
\* token
encode_raises(text) == text.kind = "str" /\ IsInfix(SPECIAL_TOKEN, text.cps)

\* try: get_encoding, encode; except Exception: heuristic_tokens
count_tokens(text, tokenizer, encoding_name) ==
    IF tokenizer # "tiktoken" THEN heuristic_tokens(text)
    ELSE IF get_encoding_ok(encoding_name) /\ ~encode_raises(text)
    THEN tiktoken_len(text, encoding_name)
    ELSE heuristic_tokens(text)

\* count_tokens(text, tokenizer, encoding_name) raises: it catches every
\* Exception of the tokenizer itself, and heuristic_tokens raises none
count_tokens_raises(text, tokenizer, encoding_name) == FALSE

\* a digest that sees only the length of the data
hash_len(data) == <<"sha256", ByteLen(data)>>

hash_bytes(data) == <<"sha256", data>>

FAST_CHUNK == 4096

\* The digest input is the byte string str(size) + head + tail; for a cache
\* dump (never more than 2 * FAST_CHUNK bytes in the model) head is the dump
hash_data_fast(data) ==
    LET size == ByteLen(data)
    IN  IF data.kind = "bytes"
        THEN LET head == Take(data.bytes, FAST_CHUNK)
                 tail == IF size > 2 * FAST_CHUNK
                         THEN LastN(data.bytes, FAST_CHUNK) ELSE <<>>
             IN  <<"sha256", str(size) \o head \o tail>>
        ELSE <<"sha256", str(size) \o <<data>>>>

SNIFF_BYTES == 8192

\* The text extensions and bare names the model's paths can carry
TEXT_EXTENSIONS ==
    { <<".", "p", "y">>, <<".", "j", "s", "o", "n">>, <<".", "m", "d">>,
      <<".", "t", "x", "t">> }

TEXT_NAMES ==
    { <<"r", "e", "a", "d", "m", "e">>, <<"l", "i", "c", "e", "n", "s", "e">>,
      <<"m", "a", "k", "e", "f", "i", "l", "e">> }

\* is_text_file(path) when the file at path holds `file` (NoFile-like values
\* and unreadable files make open() raise)
is_text_file(path, file) ==
    IF lower(suffix(path)) \in TEXT_EXTENSIONS THEN TRUE
    ELSE IF lower(name(path)) \in TEXT_NAMES THEN TRUE
    ELSE IF ~file.readable THEN FALSE
    ELSE IF HasNul(file.content, SNIFF_BYTES) THEN FALSE
    ELSE IF file.content.kind = "bytes"
         THEN Utf8Valid(Take(file.content.bytes, SNIFF_BYTES))
         ELSE file.content.kind = "json"

(***************************************************************************)
(* The tree, the run's arguments and the program state.                    *)
(***************************************************************************)

PA == <<"a", "/", "m", ".", "p", "y">>

PB == <<"b", "/", "n">>

\* default_cache_path(root), relative to root
default_cache_path ==
    Join(<< <<".", "c", "l", "a", "u", "d", "e">>,
            <<"m", "a", "p", "p", "e", "r">>,
            <<"s", "c", "a", "n", "-", "c", "a", "c", "h", "e", ".", "j", "s", "o", "n">> >>,
         "/")

\* a path under a directory of the deny-list
PV == <<"v", "e", "n", "d", "o", "r", "/", "v", ".", "p", "y">>

\* a second file of module a
PC == <<"a", "/", "k", ".", "m", "d">>

UserPaths == {PA, PB, PC}

NoFile == [link |-> "absent"]

\* A regular file (link = "none"), a symbolic link to a file whose stat and
\* content are those given (link = "file"), or a dangling link ("broken")
File(mtime, content) ==
    [mtime |-> mtime, content |-> content, readable |-> TRUE, link |-> "none"]

C_PRINT1 == Bytes(<<112, 114, 105, 110, 116, 40, 49, 41>>)

C_PRINT2 == Bytes(<<112, 114, 105, 110, 116, 40, 50, 41>>)

\* four two-byte characters: as long as C_PRINT1, half the characters
C_UTF8 == Bytes(<<195, 169, 195, 169, 195, 169, 195, 169>>)

C_NUL == Bytes(<<97, 98, 0, 100, 101, 102, 103, 104>>)

\* a text the exact tokenizer refuses to encode
C_SPECIAL == Bytes(SPECIAL_TOKEN)

CACHE_VERSION == 1

DEFAULT_MAX_FILE_TOKENS == 50000

DEFAULT_MAX_FILE_SIZE == 1000000

VARIABLES
    cfg,              \* the arguments of the scan_directory runs
    fs,               \* the user's files under root: path -> file or NoFile
    cache_file,       \* the file at cache_path, or NoFile
    clock,            \* the time of the latest write to the tree
    pc,               \* "idle", "walk" (the loop over file_iter), "tasks"
    file_iter,        \* what the enumerator has still to yield
    cache_files,      \* scan_directory's locals
    new_cache_files,
    files,
    skipped,
    total_tokens,
    cache_hits,
    cache_misses,
    tasks,
    task_meta,
    results,          \* results of the worker pool: task index -> result
    hit_paths,        \* history: the paths accepted as cache hits
    read_log,         \* history: path -> the content its task read
    start,            \* history: the tree, the cache file and the candidates
                      \* when the scan started
    last,             \* the latest finished scan: its result and history
    prev,             \* the finished scan before it
    scans_left,       \* how many more scans and edits the behaviour may hold
    edits_left,
    git_ok,           \* whether `git ls-files` run in root succeeds
    raised,           \* what ended the latest run without a result, if anything
    probe,            \* a function of the scanner applied to one input: the
                      \* input and what it returned, or None
    planner,          \* a run of plan-assignments.py, or None
    orch              \* a run of run-mapper.py, or None

scanVars ==
    <<file_iter, cache_files, new_cache_files, files, skipped, total_tokens,
      cache_hits, cache_misses, tasks, task_meta, results, hit_paths,
      read_log, start>>

\* The variables of the other programs and of the function probes
toolVars == <<probe, planner, orch>>

\* The variables of scan-codebase.py and of its environment
scannerVars ==
    <<cfg, fs, cache_file, clock, pc, scanVars, last, prev, scans_left, edits_left,
      git_ok, raised>>

vars == <<scannerVars, toolVars>>

EmptyMap == [p \in {} |-> 0]

\* d[k] = v on a dict
Put(d, k, v) == (k :> v) @@ d

\* d.get(k), as an optional value
Get(d, k) == IF k \in DOMAIN d THEN Some(d[k]) ELSE None

\* The file found at a relative path of root
FileAt(p) ==
    IF p = default_cache_path
    THEN (IF cfg.cache_path = "root" THEN cache_file ELSE NoFile)
    ELSE IF p \in DOMAIN fs THEN fs[p] ELSE NoFile

Tree == [p \in DOMAIN fs \cup {default_cache_path} |-> FileAt(p)]

(***************************************************************************)
(* Ignore patterns and the filesystem walk.                                *)
(***************************************************************************)

\* The entries of the deny-list that bear on the paths of the model
DEFAULT_IGNORE_PATTERNS ==
    << <<"*", "*", "/", ".", "g", "i", "t", "/">>,
       <<"*", "*", "/", ".", "c", "a", "c", "h", "e", "/">>,
       <<"*", "*", "/", "v", "e", "n", "d", "o", "r", "/">>,
       <<"*", "*", "/", "*", ".", "p", "y", "c">>,
       <<"*", "*", "/", "*", ".", "l", "o", "c", "k">>,
       <<"*", "*", "/", "*", ".", "l", "o", "g">>,
       <<"*", "*", "/", "p", "a", "c", "k", "a", "g", "e", "-", "l", "o", "c", "k",
         ".", "j", "s", "o", "n">> >>

EndsWithSlash(s) == s # <<>> /\ s[Len(s)] = "/"

\* pathspec's gitwildmatch for the shapes of the deny-list: "**/X/" matches
\* a directory named X at any depth and everything below it, "**/X" a file
\* or directory named X at any depth; a leading "!" negates
gitwildmatch(rel_path, pattern) ==
    LET dirOnly == EndsWithSlash(pattern)
        body    == IF dirOnly THEN SubSeq(pattern, 1, Len(pattern) - 1) ELSE pattern
        x       == IF Len(body) >= 3 /\ SubSeq(body, 1, 3) = <<"*", "*", "/">>
                   THEN SubSeq(body, 4, Len(body)) ELSE body
        comps   == parts(rel_path)
    IN  \E i \in DOMAIN comps :
            /\ fnmatch(comps[i], x)
            /\ dirOnly => (i < Len(comps) \/ EndsWithSlash(rel_path))

\* spec.match_file(rel_path): the last pattern that matches decides
match_file(rel_path, patterns) ==
    LET hits == {i \in DOMAIN patterns :
                    IF Head(patterns[i]) = "!"
                    THEN gitwildmatch(rel_path, Tail(patterns[i]))
                    ELSE gitwildmatch(rel_path, patterns[i])}
    IN  /\ hits # {}
        /\ Head(patterns[CHOOSE i \in hits : \A j \in hits : j <= i]) # "!"

matches_simple_pattern(rel_path, pattern) ==
    IF Head(pattern) = "!" THEN FALSE
    ELSE IF EndsWithSlash(pattern) /\ ~EndsWithSlash(rel_path) THEN FALSE
    ELSE LET p1 == IF EndsWithSlash(pattern)
                   THEN SubSeq(pattern, 1, Len(pattern) - 1) ELSE pattern
             p2 == IF p1 # <<>> /\ Head(p1) = "/" THEN Tail(p1) ELSE p1
         IN  \/ fnmatch(rel_path, p2)
             \/ fnmatch(rel_path, <<"*", "*", "/">> \o p2)

\* build_ignore_spec: the patterns of the spec; the model's trees carry no
\* .gitignore and no .git/info/exclude, so read_ignore_file adds nothing
ignore_patterns == DEFAULT_IGNORE_PATTERNS

\* should_ignore(rel_path, spec, extra_patterns); spec is None when the
\* pathspec library is missing
should_ignore(rel_path, extra_patterns) ==
    IF cfg.pathspec
    THEN match_file(rel_path, ignore_patterns)
    ELSE \E i \in DOMAIN (DEFAULT_IGNORE_PATTERNS \o extra_patterns) :
            matches_simple_pattern(rel_path, (DEFAULT_IGNORE_PATTERNS \o extra_patterns)[i])

\* The slash-suffixed relative paths of the directories above a path
AncestorDirs(p) ==
    LET ps == parts(p)
    IN  {Join(SubSeq(ps, 1, k), "/") \o <<"/">> : k \in 1..(Len(ps) - 1)}

\* sorted(entries, key=lambda x: x["path"]): a stable sort
RECURSIVE InsertByPath(_, _)
InsertByPath(x, s) ==
    IF s = <<>> THEN <<x>>
    ELSE IF ~StrLess(Head(s).path, x.path) THEN <<x>> \o s
    ELSE <<Head(s)>> \o InsertByPath(x, Tail(s))

RECURSIVE SortedByPath(_)
SortedByPath(s) ==
    IF s = <<>> THEN <<>>
    ELSE InsertByPath(s[1], SortedByPath(Tail(s)))

RECURSIVE SetToSortedSeq(_)
SetToSortedSeq(S) ==
    IF S = {} THEN <<>>
    ELSE LET m == CHOOSE x \in S : \A y \in S \ {x} : StrLess(x, y)
         IN  <<m>> \o SetToSortedSeq(S \ {m})

\* iter_files_fs: the files os.walk reaches without entering an ignored
\* directory and that are not themselves ignored, here in path order
iter_files_fs(extra) ==
    SetToSortedSeq(
        {p \in DOMAIN fs \cup {default_cache_path} :
            /\ FileAt(p).link # "absent"
            /\ \A d \in AncestorDirs(p) : ~should_ignore(d, extra)
            /\ ~should_ignore(p, extra)})

(***************************************************************************)
(* The fingerprint cache.                                                  *)
(***************************************************************************)

EmptyCache == [version |-> CACHE_VERSION, files |-> EmptyMap]

\* load_cache without the comparison of hash_mode
load_cache_any_mode(encoding_name, tokenizer, max_file_tokens, max_file_size, hash_mode, cache_compress) ==
    IF cache_file.link = "absent" THEN EmptyCache
    ELSE IF cache_file.content.kind # (IF cache_compress THEN "gzip" ELSE "json")
         THEN EmptyCache
    ELSE LET data == cache_file.content.data
         IN  IF Get(data, "version") # Some(CACHE_VERSION) THEN EmptyCache
             ELSE IF Get(data, "encoding") # Some(encoding_name) THEN EmptyCache
             ELSE IF Get(data, "tokenizer") # Some(tokenizer) THEN EmptyCache
             ELSE IF Get(data, "max_file_tokens") # Some(max_file_tokens) THEN EmptyCache
             ELSE IF Get(data, "max_file_size") # Some(max_file_size) THEN EmptyCache
             ELSE IF Get(data, "cache_compress") # Some(cache_compress) THEN EmptyCache
             ELSE IF "files" \notin DOMAIN data THEN EmptyCache
             ELSE data

\* load_cache without the comparison of max_file_tokens
load_cache_any_ceiling(encoding_name, tokenizer, max_file_tokens, max_file_size, hash_mode, cache_compress) ==
    IF cache_file.link = "absent" THEN EmptyCache
    ELSE IF cache_file.content.kind # (IF cache_compress THEN "gzip" ELSE "json")
         THEN EmptyCache
    ELSE LET data == cache_file.content.data
         IN  IF Get(data, "version") # Some(CACHE_VERSION) THEN EmptyCache
             ELSE IF Get(data, "encoding") # Some(encoding_name) THEN EmptyCache
             ELSE IF Get(data, "tokenizer") # Some(tokenizer) THEN EmptyCache
             ELSE IF Get(data, "max_file_size") # Some(max_file_size) THEN EmptyCache
             ELSE IF Get(data, "hash_mode") # Some(hash_mode) THEN EmptyCache
             ELSE IF Get(data, "cache_compress") # Some(cache_compress) THEN EmptyCache
             ELSE IF "files" \notin DOMAIN data THEN EmptyCache
             ELSE data

\* load_cache: the parsed file when every header field equals the run's
\* value, otherwise an empty cache.  open_cache_file reads gzip when
\* cache_compress is set; reading a file of the other format raises.
load_cache(encoding_name, tokenizer, max_file_tokens, max_file_size, hash_mode, cache_compress) ==
    IF cache_file.link = "absent" THEN EmptyCache
    ELSE IF cache_file.content.kind # (IF cache_compress THEN "gzip" ELSE "json")
         THEN EmptyCache
    ELSE LET data == cache_file.content.data
         IN  IF Get(data, "version") # Some(CACHE_VERSION) THEN EmptyCache
             ELSE IF Get(data, "encoding") # Some(encoding_name) THEN EmptyCache
             ELSE IF Get(data, "tokenizer") # Some(tokenizer) THEN EmptyCache
             ELSE IF Get(data, "max_file_tokens") # Some(max_file_tokens) THEN EmptyCache
             ELSE IF Get(data, "max_file_size") # Some(max_file_size) THEN EmptyCache
             ELSE IF Get(data, "hash_mode") # Some(hash_mode) THEN EmptyCache
             ELSE IF Get(data, "cache_compress") # Some(cache_compress) THEN EmptyCache
             ELSE IF "files" \notin DOMAIN data THEN EmptyCache
             ELSE data

(***************************************************************************)
(* A task of the runner.                                                   *)
(***************************************************************************)

\* read_bytes(path) raises: no such file, a dangling link, no permission
ReadFails(file) == file.link \in {"absent", "broken"} \/ ~file.readable

\* process_file_task(args), `file` being what is at abs_path when it reads
process_file_task(args, file) ==
    IF ReadFails(file)
    THEN [path |-> args.rel_path, error |-> "read_error: cannot open"]
    ELSE LET data == file.content IN
         IF HasNul(data, ByteLen(data))
         THEN [path |-> args.rel_path, skip |-> "binary"]
         ELSE LET text   == decode_text(data)
                  tokens == count_tokens(text, args.tokenizer, args.encoding_name)
              IN  IF count_tokens_raises(text, args.tokenizer, args.encoding_name)
                  THEN [path |-> args.rel_path, error |-> "token_error: raised"]
                  ELSE IF tokens > args.max_file_tokens
                  THEN [path |-> args.rel_path, skip |-> "too_many_tokens",
                        tokens |-> tokens]
                  ELSE [path |-> args.rel_path, tokens |-> tokens,
                        content_hash |->
                            IF args.hash_mode = "full" THEN hash_bytes(data)
                            ELSE IF args.hash_mode = "fast" THEN hash_data_fast(data)
                            ELSE NoHash]

(***************************************************************************)
(* The aggregator's digests.                                               *)
(***************************************************************************)

HasHash(entry) == "content_hash" \in DOMAIN entry /\ entry.content_hash # NoHash

\* The bytes compute_scan_hash feeds to the hasher for one entry; a hex
\* digest is one symbol of the sequence
ScanHashInput(entry) ==
    entry.path \o str(entry.size_bytes) \o str_float(entry.mtime) \o str(entry.tokens)
        \o (IF HasHash(entry) THEN <<entry.content_hash>> ELSE <<>>)

\* the digest of the list in the order it comes in
compute_scan_hash_unsorted(fileList) ==
    <<"sha256", Flatten([i \in DOMAIN fileList |-> ScanHashInput(fileList[i])])>>

compute_scan_hash(fileList) ==
    LET sorted == SortedByPath(fileList)
    IN  <<"sha256", Flatten([i \in DOMAIN sorted |-> ScanHashInput(sorted[i])])>>

\* the digest input without the content hash
ModuleStatInput(entry) ==
    entry.path \o str(entry.size_bytes) \o str_float(entry.mtime) \o str(entry.tokens)

ModuleHashInput(entry) ==
    entry.path \o
        (IF HasHash(entry) THEN <<entry.content_hash>>
         ELSE str(entry.size_bytes) \o str_float(entry.mtime) \o str(entry.tokens))

\* every label digests the whole file list
module_hashes_whole(fileList, depth) ==
    LET labels == {group_label(fileList[i].path, depth) : i \in DOMAIN fileList}
        sorted == SortedByPath(fileList)
    IN  [label \in labels |->
            <<"sha256", Flatten([i \in DOMAIN sorted |-> ModuleHashInput(sorted[i])])>>]

compute_module_hashes(fileList, depth) ==
    LET labels == {group_label(fileList[i].path, depth) : i \in DOMAIN fileList}
        group(label) ==
            SelectSeq(fileList, LAMBDA e : group_label(e.path, depth) = label)
    IN  [label \in labels |->
            LET sorted == SortedByPath(group(label))
            IN  <<"sha256", Flatten([i \in DOMAIN sorted |-> ModuleHashInput(sorted[i])])>>]

(***************************************************************************)
(* scan_directory.                                                         *)
(***************************************************************************)

MaxScans == 2

MaxEdits == 1

MaxOrderScans == 2

MaxStripScans == 2

MaxStripEdits == 2

MaxRaceScans == 3

MaxRaceEdits == 2

MaxSkipScans == 3

MaxSkipEdits == 1

MaxReportScans == 1

MaxReportEdits == 1

MaxPushScans == 2

MaxPushEdits == 1

\* the most characters of a content given to count_tokens
MaxChars == 3

\* the longest content given to hash_data_fast
MaxFastLen == 12289

\* the largest --max-depth given to plan-assignments.py
MaxPlanDepth == 3

\* a --max-file-tokens below the token count of C_PRINT1
LOW_CEILING == 3

\* new_cache_files starting from the loaded entries
new_cache_files_keep(loaded) == loaded

\* new_cache_files as scan_directory creates it
new_cache_files_init(loaded) == EmptyMap

cache_hit_size_only(cache_entry, st_mtime, st_size) ==
    /\ cache_entry # None
    /\ Get(cache_entry[1], "size") = Some(st_size)

\* any entry of the path passes the hit test
cache_hit_any_entry(cache_entry, st_mtime, st_size) == cache_entry # None

\* no entry is ever taken as current
cache_hit_never(cache_entry, st_mtime, st_size) == FALSE

\* The cache lookup of one candidate: cache_hit and needs_read
cache_hit(cache_entry, st_mtime, st_size) ==
    /\ cache_entry # None
    /\ Get(cache_entry[1], "mtime") = Some(st_mtime)
    /\ Get(cache_entry[1], "size") = Some(st_size)

\* needs_read without its first disjunct
needs_read_for_hash(hit, hash_mode, cache_entry) ==
    \/ hash_mode = "full"
    \/ (hash_mode # "mtime" /\ cache_entry # None
            /\ Get(cache_entry[1], "content_hash") \in {None, Some(NoHash)})

\* every candidate is read
needs_read_always(hit, hash_mode, cache_entry) == TRUE

\* only a miss of the hit test is read
needs_read_miss_only(hit, hash_mode, cache_entry) == ~hit

\* needs_read without its third disjunct
needs_read_no_backfill(hit, hash_mode, cache_entry) == ~hit \/ hash_mode = "full"

needs_read(hit, hash_mode, cache_entry) ==
    \/ ~hit
    \/ hash_mode = "full"
    \/ (hash_mode # "mtime" /\ cache_entry # None
            /\ Get(cache_entry[1], "content_hash") \in {None, Some(NoHash)})

\* the filters without the exclude patterns
filtered_out_no_exclude(rel_path) ==
    \/ should_ignore(rel_path, ignore_patterns)
    \/ /\ cfg.changed_paths # {}
       /\ IF cfg.changed_scope = "files"
          THEN rel_path \notin cfg.changed_paths
          ELSE group_label(rel_path, cfg.changed_depth) \notin
                   {group_label(c, cfg.changed_depth) : c \in cfg.changed_paths}
    \/ /\ cfg.include_patterns # <<>>
       /\ ~\E i \in DOMAIN cfg.include_patterns : fnmatch(rel_path, cfg.include_patterns[i])

\* The candidate is dropped by the ignore, changed-set, include or exclude
\* filter at the head of the loop
filtered_out(rel_path) ==
    \/ should_ignore(rel_path, ignore_patterns)
    \/ /\ cfg.changed_paths # {}
       /\ IF cfg.changed_scope = "files"
          THEN rel_path \notin cfg.changed_paths
          ELSE group_label(rel_path, cfg.changed_depth) \notin
                   {group_label(c, cfg.changed_depth) : c \in cfg.changed_paths}
    \/ /\ cfg.include_patterns # <<>>
       /\ ~\E i \in DOMAIN cfg.include_patterns : fnmatch(rel_path, cfg.include_patterns[i])
    \/ /\ cfg.exclude_patterns # <<>>
       /\ \E i \in DOMAIN cfg.exclude_patterns : fnmatch(rel_path, cfg.exclude_patterns[i])

\* the size of the candidate is not looked at
admission_skip_any_size(rel_path, file) ==
    IF file.link \in {"absent", "broken"}
    THEN Some([path |-> rel_path, reason |-> "stat_error"])
    ELSE IF ~cfg.follow_symlinks /\ file.link = "file"
    THEN Some([path |-> rel_path, reason |-> "symlink"])
    ELSE IF ~is_text_file(rel_path, file)
    THEN Some([path |-> rel_path, reason |-> "binary"])
    ELSE None

\* The SkipRecord of a candidate rejected before the cache lookup, if any
admission_skip(rel_path, file) ==
    IF file.link \in {"absent", "broken"}
    THEN Some([path |-> rel_path, reason |-> "stat_error"])
    ELSE IF ~cfg.follow_symlinks /\ file.link = "file"
    THEN Some([path |-> rel_path, reason |-> "symlink"])
    ELSE IF ByteLen(file.content) > cfg.max_file_size
    THEN Some([path |-> rel_path, reason |-> "too_large",
               size_bytes |-> ByteLen(file.content)])
    ELSE IF ~is_text_file(rel_path, file)
    THEN Some([path |-> rel_path, reason |-> "binary"])
    ELSE None

\* a FileRecord that never carries the hash
FileEntry_no_hash(rel_path, tokens, size, mtime, content_hash) ==
    [path |-> rel_path, tokens |-> tokens, size_bytes |-> size, mtime |-> mtime]

\* The FileRecord and the cache entry built from tokens, stat and hash
FileEntry(rel_path, tokens, size, mtime, content_hash) ==
    IF content_hash # NoHash
    THEN [path |-> rel_path, tokens |-> tokens, size_bytes |-> size, mtime |-> mtime,
          content_hash |-> content_hash]
    ELSE [path |-> rel_path, tokens |-> tokens, size_bytes |-> size, mtime |-> mtime]

CacheEntry(tokens, size, mtime, content_hash) ==
    IF content_hash # NoHash
    THEN [mtime |-> mtime, size |-> size, tokens |-> tokens, content_hash |-> content_hash]
    ELSE [mtime |-> mtime, size |-> size, tokens |-> tokens]

NoStart == [fs |-> EmptyMap, cache |-> NoFile, yielded |-> {}]

ResetLocals ==
    /\ file_iter' = <<>>
    /\ cache_files' = EmptyMap
    /\ new_cache_files' = EmptyMap
    /\ files' = <<>>
    /\ skipped' = <<>>
    /\ total_tokens' = 0
    /\ cache_hits' = 0
    /\ cache_misses' = 0
    /\ tasks' = <<>>
    /\ task_meta' = EmptyMap
    /\ results' = EmptyMap
    /\ hit_paths' = {}
    /\ read_log' = EmptyMap
    /\ start' = NoStart

\* git's glob pathspec magic: "*" and "?" stop at "/"
RECURSIVE glob_match(_, _)
glob_match(path, pat) ==
    IF pat = <<>> THEN path = <<>>
    ELSE IF Head(pat) = "*"
         THEN \/ glob_match(path, Tail(pat))
              \/ path # <<>> /\ Head(path) # "/" /\ glob_match(Tail(path), pat)
    ELSE IF path = <<>> THEN FALSE
    ELSE /\ \/ Head(pat) = "?" /\ Head(path) # "/"
            \/ Head(pat) = Head(path)
         /\ glob_match(Tail(path), Tail(pat))

\* build_git_pathspec for patterns that are not empty and start with
\* neither "!" nor ":": ":(glob)p" per include, ":(exclude,glob)p" per exclude
build_git_pathspec(include_patterns, exclude_patterns) ==
    [i \in DOMAIN include_patterns |-> [exclude |-> FALSE, glob |-> include_patterns[i]]]
        \o [i \in DOMAIN exclude_patterns |-> [exclude |-> TRUE, glob |-> exclude_patterns[i]]]

\* What `git ls-files -co --exclude-standard -z -- pathspecs` lists when it
\* succeeds, in a work tree with no .gitignore: the tracked and the
\* untracked files the tree holds
iter_files_git(pathspecs) ==
    LET held     == {p \in DOMAIN Tree : Tree[p].link # "absent"}
        includes == {i \in DOMAIN pathspecs : ~pathspecs[i].exclude}
        excludes == {i \in DOMAIN pathspecs : pathspecs[i].exclude}
    IN  SetToSortedSeq(
            {p \in held :
                /\ includes = {} \/ \E i \in includes : glob_match(p, pathspecs[i].glob)
                /\ \A i \in excludes : ~glob_match(p, pathspecs[i].glob)})

\* The candidates come from iter_files_git
GitListing ==
    cfg.use_git /\ ~(cfg.changed_paths # {} /\ cfg.changed_scope = "files")

\* main hands every configuration to scan_directory
main_accepts_any(tokenizer, encoding_name) == TRUE

\* main's check of the exact tokenizer: it goes on to scan_directory unless
\* tiktoken is selected and is missing or cannot load the encoding
main_accepts(tokenizer, encoding_name) ==
    tokenizer = "tiktoken" => get_encoding_ok(encoding_name)

\* main ends the run with sys.exit(1) before it calls scan_directory
MainRejects ==
    /\ pc = "idle"
    /\ scans_left > 0
    /\ ~main_accepts(cfg.tokenizer, cfg.encoding_name)
    /\ scans_left' = scans_left - 1
    /\ raised' = Some("SystemExit")
    /\ UNCHANGED <<cfg, fs, cache_file, clock, pc, scanVars, last, prev, edits_left,
                   git_ok, toolVars>>

\* scan_directory up to the loop: load the cache, pick the enumerator.
\* iter_files_git is a generator: the call at line 922 runs none of its
\* body, and the git command runs, and may raise, at the first pass of
\* `for path in file_iter`, outside the try of lines 921-925.
ScanStart(w) ==
    /\ pc = "idle"
    /\ scans_left > 0
    /\ main_accepts(cfg.tokenizer, cfg.encoding_name)
    /\ cfg' = [cfg EXCEPT !.workers = w]
    /\ scans_left' = scans_left - 1
    /\ IF GitListing /\ ~git_ok
       THEN /\ ResetLocals
            /\ pc' = "idle"
            /\ raised' = Some("CalledProcessError")
       ELSE /\ LET cache == IF cfg.cache_enabled
                            THEN load_cache(cfg.encoding_name, cfg.tokenizer,
                                            cfg.max_file_tokens, cfg.max_file_size,
                                            cfg.hash_mode, cfg.cache_compress)
                            ELSE EmptyCache
                   iter  == IF cfg.use_git /\ cfg.changed_paths # {}
                                           /\ cfg.changed_scope = "files"
                            THEN SetToSortedSeq(cfg.changed_paths)
                            ELSE IF cfg.use_git
                            THEN iter_files_git(
                                     IF cfg.git_pathspec
                                     THEN build_git_pathspec(cfg.include_patterns,
                                                             cfg.exclude_patterns)
                                     ELSE <<>>)
                            ELSE iter_files_fs(ignore_patterns \o cfg.exclude_patterns)
               IN  /\ cache_files' = cache.files
                   /\ new_cache_files' = new_cache_files_init(cache.files)
                   /\ file_iter' = iter
                   /\ pc' = IF iter = <<>> THEN "tasks" ELSE "walk"
            /\ files' = <<>>
            /\ skipped' = <<>>
            /\ total_tokens' = 0
            /\ cache_hits' = 0
            /\ cache_misses' = 0
            /\ tasks' = <<>>
            /\ task_meta' = EmptyMap
            /\ results' = EmptyMap
            /\ hit_paths' = {}
            /\ read_log' = EmptyMap
            /\ start' = [fs |-> Tree, cache |-> cache_file,
                         yielded |-> Range(file_iter')]
            /\ raised' = None
    /\ UNCHANGED <<fs, cache_file, clock, last, prev, edits_left, git_ok, toolVars>>

\* One iteration of `for path in file_iter`
Visit ==
    /\ pc = "walk"
    /\ file_iter # <<>>
    /\ LET rel_path == Head(file_iter)
           file     == FileAt(rel_path)
           skip     == admission_skip(rel_path, file)
       IN  /\ file_iter' = Tail(file_iter)
           /\ pc' = IF Tail(file_iter) = <<>> THEN "tasks" ELSE "walk"
           /\ IF filtered_out(rel_path)
              THEN UNCHANGED <<files, skipped, total_tokens, cache_hits, new_cache_files,
                               tasks, task_meta, hit_paths>>
              ELSE IF skip # None
              THEN /\ skipped' = skipped \o skip
                   /\ UNCHANGED <<files, total_tokens, cache_hits, new_cache_files,
                                  tasks, task_meta, hit_paths>>
              ELSE LET st_mtime    == file.mtime
                       st_size     == ByteLen(file.content)
                       cache_entry == Get(cache_files, rel_path)
                       hit         == cache_hit(cache_entry, st_mtime, st_size)
                   IN  IF ~needs_read(hit, cfg.hash_mode, cache_entry) /\ cache_entry # None
                       THEN LET tokens       == cache_entry[1].tokens
                                content_hash == IF cfg.hash_mode # "mtime"
                                                   /\ HasHash(cache_entry[1])
                                                THEN cache_entry[1].content_hash
                                                ELSE NoHash
                            IN  /\ cache_hits' = cache_hits + 1
                                /\ files' = Append(files,
                                       FileEntry(rel_path, tokens, st_size, st_mtime,
                                                 content_hash))
                                /\ total_tokens' = total_tokens + tokens
                                /\ new_cache_files' =
                                       IF cfg.cache_enabled
                                       THEN Put(new_cache_files, rel_path,
                                                CacheEntry(tokens, st_size, st_mtime,
                                                           content_hash))
                                       ELSE new_cache_files
                                /\ hit_paths' = hit_paths \cup {rel_path}
                                /\ UNCHANGED <<skipped, tasks, task_meta>>
                       ELSE /\ task_meta' = Put(task_meta, rel_path,
                                                [size |-> st_size, mtime |-> st_mtime])
                            /\ tasks' = Append(tasks,
                                   [rel_path |-> rel_path,
                                    encoding_name |-> cfg.encoding_name,
                                    tokenizer |-> cfg.tokenizer,
                                    hash_mode |-> cfg.hash_mode,
                                    max_file_tokens |-> cfg.max_file_tokens])
                            /\ UNCHANGED <<files, skipped, total_tokens, cache_hits,
                                           new_cache_files, hit_paths>>
    /\ UNCHANGED <<cfg, fs, cache_file, clock, cache_files, cache_misses, results,
                   read_log, start, last, prev, scans_left,
                   edits_left, git_ok, raised, toolVars>>

\* a merge that stores a cache entry for a skipped task as well
merge_skip_cached(result, meta) ==
    LET size  == IF meta = None THEN 0 ELSE meta[1].size
        mtime == IF meta = None THEN 0 ELSE meta[1].mtime
        kept  == IF cfg.cache_enabled
                 THEN Some(CacheEntry(0, size, mtime, NoHash)) ELSE None
    IN  IF Get(result, "error") # None
        THEN [file |-> None, entry |-> kept, tokens |-> 0,
              skip |-> Some([path |-> result.path, reason |-> result.error])]
        ELSE IF Get(result, "skip") # None
        THEN [file |-> None, entry |-> kept, tokens |-> 0,
              skip |-> IF result.skip = "too_many_tokens"
                       THEN Some([path |-> result.path, reason |-> result.skip,
                                  tokens |-> result.tokens])
                       ELSE Some([path |-> result.path, reason |-> result.skip])]
        ELSE [file   |-> Some(FileEntry(result.path, result.tokens, size, mtime,
                                        result.content_hash)),
              skip   |-> None,
              entry  |-> IF cfg.cache_enabled
                         THEN Some(CacheEntry(result.tokens, size, mtime,
                                              result.content_hash))
                         ELSE None,
              tokens |-> result.tokens]

\* What merging one task result adds, in the sequential branch of the
\* runner: a FileRecord, a SkipRecord, a cache entry, tokens
merge_sequential(result, meta) ==
    LET none == [file |-> None, skip |-> None, entry |-> None, tokens |-> 0]
        size  == IF meta = None THEN 0 ELSE meta[1].size
        mtime == IF meta = None THEN 0 ELSE meta[1].mtime
    IN  IF Get(result, "error") # None
        THEN [none EXCEPT !.skip = Some([path |-> result.path, reason |-> result.error])]
        ELSE IF Get(result, "skip") # None
        THEN [none EXCEPT !.skip =
                  IF result.skip = "too_many_tokens"
                  THEN Some([path |-> result.path, reason |-> result.skip,
                             tokens |-> result.tokens])
                  ELSE Some([path |-> result.path, reason |-> result.skip])]
        ELSE [file   |-> Some(FileEntry(result.path, result.tokens, size, mtime,
                                        result.content_hash)),
              skip   |-> None,
              entry  |-> IF cfg.cache_enabled
                         THEN Some(CacheEntry(result.tokens, size, mtime,
                                              result.content_hash))
                         ELSE None,
              tokens |-> result.tokens]

\* a merge that leaves the tokens of the file out of the total
merge_untallied(result, meta) ==
    [merge_sequential(result, meta) EXCEPT !.tokens = 0]

\* a merge that drops the result of a task whose read failed
merge_error_dropped(result, meta) ==
    IF Get(result, "error") # None
    THEN [file |-> None, skip |-> None, entry |-> None, tokens |-> 0]
    ELSE merge_sequential(result, meta)

\* The same for the branch that iterates over executor.map's results
merge_parallel(result, meta) ==
    LET none == [file |-> None, skip |-> None, entry |-> None, tokens |-> 0]
        size  == IF meta = None THEN 0 ELSE meta[1].size
        mtime == IF meta = None THEN 0 ELSE meta[1].mtime
    IN  IF Get(result, "error") # None
        THEN [none EXCEPT !.skip = Some([path |-> result.path, reason |-> result.error])]
        ELSE IF Get(result, "skip") # None
        THEN [none EXCEPT !.skip =
                  IF result.skip = "too_many_tokens"
                  THEN Some([path |-> result.path, reason |-> result.skip,
                             tokens |-> result.tokens])
                  ELSE Some([path |-> result.path, reason |-> result.skip])]
        ELSE [file   |-> Some(FileEntry(result.path, result.tokens, size, mtime,
                                        result.content_hash)),
              skip   |-> None,
              entry  |-> IF cfg.cache_enabled
                         THEN Some(CacheEntry(result.tokens, size, mtime,
                                              result.content_hash))
                         ELSE None,
              tokens |-> result.tokens]

ApplyMerge(rel_path, out) ==
    /\ cache_misses' = cache_misses + 1
    /\ files' = files \o out.file
    /\ skipped' = skipped \o out.skip
    /\ total_tokens' = total_tokens + out.tokens
    /\ new_cache_files' = IF out.entry # None
                          THEN Put(new_cache_files, rel_path, out.entry[1])
                          ELSE new_cache_files

LogRead(rel_path, file) ==
    IF ReadFails(file) THEN read_log ELSE Put(read_log, rel_path, file.content)

\* W <= 1: the next task is processed in-process and its result merged
RunTask ==
    /\ pc = "tasks"
    /\ cfg.workers <= 1
    /\ cache_misses < Len(tasks)
    /\ LET task   == tasks[cache_misses + 1]
           file   == FileAt(task.rel_path)
           result == process_file_task(task, file)
       IN  /\ ApplyMerge(result.path,
                         merge_sequential(result, Get(task_meta, result.path)))
           /\ read_log' = LogRead(task.rel_path, file)
    /\ UNCHANGED <<cfg, fs, cache_file, clock, pc, file_iter, cache_files, cache_hits,
                   tasks, task_meta, results, hit_paths, start, last, prev,
                   scans_left, edits_left, git_ok, raised, toolVars>>

\* W > 1: some worker of the pool completes some task
WorkerTask(i) ==
    /\ pc = "tasks"
    /\ cfg.workers > 1
    /\ i \in DOMAIN tasks
    /\ i \notin DOMAIN results
    /\ LET file == FileAt(tasks[i].rel_path)
       IN  /\ results' = Put(results, i, process_file_task(tasks[i], file))
           /\ read_log' = LogRead(tasks[i].rel_path, file)
    /\ UNCHANGED <<cfg, fs, cache_file, clock, pc, file_iter, cache_files,
                   new_cache_files, files, skipped, total_tokens, cache_hits,
                   cache_misses, tasks, task_meta, hit_paths, start, last, prev,
                   scans_left, edits_left, git_ok, raised, toolVars>>

\* W > 1: a worker process dies; the iteration over executor.map's results
\* raises BrokenProcessPool, which nothing in scan_directory or main catches
PoolBreaks ==
    /\ pc = "tasks"
    /\ cfg.workers > 1
    /\ cache_misses < Len(tasks)
    /\ pc' = "idle"
    /\ ResetLocals
    /\ raised' = Some("BrokenProcessPool")
    /\ UNCHANGED <<cfg, fs, cache_file, clock, last, prev, scans_left, edits_left,
                   git_ok, toolVars>>

\* W > 1: executor.map hands the results over in task order
MergeResult ==
    /\ pc = "tasks"
    /\ cfg.workers > 1
    /\ (cache_misses + 1) \in DOMAIN results
    /\ LET result == results[cache_misses + 1]
       IN  ApplyMerge(result.path, merge_parallel(result, Get(task_meta, result.path)))
    /\ UNCHANGED <<cfg, fs, cache_file, clock, pc, file_iter, cache_files, cache_hits,
                   tasks, task_meta, results, hit_paths, read_log, start, last, prev,
                   scans_left, edits_left, git_ok, raised, toolVars>>

\* cache.update({...}): the dict save_cache writes
SavedCache ==
    [version         |-> CACHE_VERSION,
     files           |-> new_cache_files,
     encoding        |-> cfg.encoding_name,
     tokenizer       |-> cfg.tokenizer,
     max_file_tokens |-> cfg.max_file_tokens,
     max_file_size   |-> cfg.max_file_size,
     hash_mode       |-> cfg.hash_mode,
     cache_compress  |-> cfg.cache_compress]

\* The keys of module_hashes in the order of the dict: a label enters
\* groups when its first file is met
RECURSIVE LabelOrder(_, _)
LabelOrder(fileList, depth) ==
    IF fileList = <<>> THEN <<>>
    ELSE LET before == LabelOrder(Take(fileList, Len(fileList) - 1), depth)
             label  == group_label(fileList[Len(fileList)].path, depth)
         IN  IF label \in Range(before) THEN before ELSE Append(before, label)

\* load_json(prev_scan_path).get("module_hashes", {}) of a missing or
\* unparsable file
NoArtifact == [hashes |-> EmptyMap, order |-> <<>>]

\* every current label is reported as changed
changed_modules_all(module_hashes, order, prev_hashes) == order

\* The labels of the current scan whose digest is not the previous one
changed_modules(module_hashes, order, prev_hashes) ==
    SelectSeq(order, LAMBDA l : Get(prev_hashes, l) # Some(module_hashes[l]))

\* every previous label is reported as removed
removed_modules_all(module_hashes, prev_order) == prev_order

\* The labels of the previous scan that the current one lacks
removed_modules(module_hashes, prev_order) ==
    SelectSeq(prev_order, LAMBDA l : l \notin DOMAIN module_hashes)

(***************************************************************************)
(* The report lists: entrypoints, top files, churn.                        *)
(***************************************************************************)

ENTRYPOINT_PATTERNS ==
    << <<"m", "a", "i", "n", ".", "*">>,
       <<"i", "n", "d", "e", "x", ".", "*">>,
       <<"a", "p", "p", ".", "*">>,
       <<"s", "e", "r", "v", "e", "r", ".", "*">>,
       <<"c", "l", "i", ".", "*">>,
       <<"c", "m", "d", "/", "*", "/", "m", "a", "i", "n", ".", "g", "o">>,
       <<"c", "m", "d", "/", "*", "/", "m", "a", "i", "n", ".", "r", "s">>,
       <<"c", "m", "d", "/", "*", "/", "m", "a", "i", "n", ".", "p", "y">>,
       <<"b", "i", "n", "/", "*">>,
       <<"s", "r", "c", "/", "m", "a", "i", "n", ".", "*">>,
       <<"s", "r", "c", "/", "i", "n", "d", "e", "x", ".", "*">>,
       <<"s", "r", "c", "/", "a", "p", "p", ".", "*">>,
       <<"s", "r", "c", "/", "s", "e", "r", "v", "e", "r", ".", "*">> >>

\* The first pattern the path matches, bare or under any directory
entry_pattern(path) ==
    LET hits == {i \in DOMAIN ENTRYPOINT_PATTERNS :
                    \/ fnmatch(path, ENTRYPOINT_PATTERNS[i])
                    \/ fnmatch(path, <<"*", "*", "/">> \o ENTRYPOINT_PATTERNS[i])}
    IN  IF hits = {} THEN None
        ELSE Some(ENTRYPOINT_PATTERNS[CHOOSE i \in hits : \A j \in hits : i <= j])

\* sorted(records, key=lambda x: x[key], reverse=True): a stable sort, the
\* records with equal keys keep their order
RECURSIVE InsertDesc(_, _, _)
InsertDesc(x, s, key) ==
    IF s = <<>> THEN <<x>>
    ELSE IF Head(s)[key] <= x[key] THEN <<x>> \o s
    ELSE <<Head(s)>> \o InsertDesc(x, Tail(s), key)

RECURSIVE SortedDesc(_, _)
SortedDesc(s, key) ==
    IF s = <<>> THEN <<>> ELSE InsertDesc(s[1], SortedDesc(Tail(s), key), key)

RECURSIVE entrypoint_candidates(_)
entrypoint_candidates(fileList) ==
    IF fileList = <<>> THEN <<>>
    ELSE LET f == Head(fileList)
             pattern == entry_pattern(f.path)
         IN  (IF pattern = None THEN <<>>
              ELSE << [path |-> f.path, tokens |-> f.tokens, reason |-> pattern[1]] >>)
             \o entrypoint_candidates(Tail(fileList))

detect_entrypoints(fileList, limit) ==
    LET entrypoints == SortedDesc(entrypoint_candidates(fileList), "tokens")
    IN  IF limit > 0 THEN Take(entrypoints, limit) ELSE entrypoints

top_files_by_tokens(fileList, limit) ==
    IF limit <= 0 THEN <<>> ELSE Take(SortedDesc(fileList, "tokens"), limit)

\* The counts dict of git_churn, in insertion order, from the lines of
\* `git log -n commits --name-only`
RECURSIVE churn_counts(_, _)
churn_counts(lines, seen) ==
    IF lines = <<>> THEN <<>>
    ELSE LET path == Head(lines)
         IN  IF path \in seen THEN churn_counts(Tail(lines), seen)
             ELSE << [path |-> path,
                      commits |-> Cardinality({i \in DOMAIN lines : lines[i] = path})] >>
                  \o churn_counts(Tail(lines), seen \cup {path})

\* log: the commits, newest first, each the paths it names; repo_ok: root
\* is a repository and git runs
git_churn(log, commits, file_set, repo_ok) ==
    IF commits <= 0 \/ ~repo_ok THEN <<>>
    ELSE LET lines == Flatten(Take(log, commits))
             kept  == SelectSeq(lines, LAMBDA path : file_set = {} \/ path \in file_set)
         IN  SortedDesc(churn_counts(kept, {}), "commits")

\* The ScanResult (the fields the claims read)
ScanResult ==
    [files         |-> files,
     total_tokens  |-> total_tokens,
     total_files   |-> Len(files),
     skipped       |-> skipped,
     cache_hits    |-> cache_hits,
     cache_misses  |-> cache_misses,
     scan_hash     |-> compute_scan_hash(files),
     workers       |-> cfg.workers,
     git_used      |-> cfg.use_git,
     hash_mode     |-> cfg.hash_mode,
     module_hashes |-> compute_module_hashes(files, cfg.module_depth),
     module_labels |-> LabelOrder(files, cfg.module_depth),
     changed_modules |->
         IF cfg.prev_scan = None THEN None
         ELSE Some(changed_modules(compute_module_hashes(files, cfg.module_depth),
                                   LabelOrder(files, cfg.module_depth),
                                   cfg.prev_scan[1].hashes)),
     removed_modules |->
         IF cfg.prev_scan = None THEN None
         ELSE Some(removed_modules(compute_module_hashes(files, cfg.module_depth),
                                   cfg.prev_scan[1].order)),
     entrypoints   |-> detect_entrypoints(files, cfg.entrypoints_limit),
     top_files     |-> top_files_by_tokens(files, cfg.top_files_limit),
     churn         |-> git_churn(cfg.git_log, cfg.churn_commits,
                                 {files[i].path : i \in DOMAIN files}, git_ok)]

\* History: for each entry of the cache being written, the content read by
\* the task that counted its tokens (a hit carries the entry over)
EntrySource ==
    IF ~cfg.cache_enabled
    THEN (IF last = None THEN EmptyMap ELSE last[1].src)
    ELSE [p \in DOMAIN new_cache_files |->
            IF p \in DOMAIN read_log THEN Some(read_log[p])
            ELSE IF last # None /\ p \in DOMAIN last[1].src THEN last[1].src[p]
            ELSE None]

\* scan_directory after the runner: aggregate, save the cache, return
Finish ==
    /\ pc = "tasks"
    /\ cache_misses = Len(tasks)
    /\ pc' = "idle"
    /\ IF cfg.cache_enabled
       THEN /\ cache_file' =
                  File(clock + 1,
                       [kind |-> IF cfg.cache_compress THEN "gzip" ELSE "json",
                        data |-> SavedCache])
            /\ clock' = clock + 1
       ELSE UNCHANGED <<cache_file, clock>>
    /\ last' = Some([result   |-> ScanResult,
                     saved    |-> IF cfg.cache_enabled THEN Some(SavedCache) ELSE None,
                     cfg      |-> cfg,
                     start_fs |-> start.fs,
                     start_cache |-> start.cache,
                     yielded  |-> start.yielded,
                     loaded   |-> cache_files,
                     hits     |-> hit_paths,
                     tasks    |-> {tasks[i].rel_path : i \in DOMAIN tasks},
                     read_log |-> read_log,
                     src      |-> EntrySource])
    /\ prev' = last
    /\ ResetLocals
    /\ UNCHANGED <<cfg, fs, scans_left, edits_left, git_ok, raised, toolVars>>

(***************************************************************************)
(* The user's edits of the tree between scans.                             *)
(***************************************************************************)

EditContents == {C_PRINT1, C_PRINT2, C_UTF8, C_NUL}

\* The edits that matter lie between two scans
CanEdit == pc = "idle" /\ edits_left > 0 /\ last # None /\ scans_left > 0

\* write (or create) a file: new content, new modification time; writing
\* the content the file already has is a touch
WriteFile(p, c) ==
    /\ CanEdit
    /\ fs' = [fs EXCEPT ![p] = File(clock + 1, c)]
    /\ clock' = clock + 1
    /\ edits_left' = edits_left - 1
    /\ UNCHANGED <<cfg, cache_file, pc, scanVars, last, prev, scans_left, git_ok,
                   raised, toolVars>>

\* change the content of a file without changing its length or its
\* modification time
RewriteInPlace(p, c) ==
    /\ CanEdit
    /\ fs[p].link = "none"
    /\ c # fs[p].content
    /\ ByteLen(c) = ByteLen(fs[p].content)
    /\ fs' = [fs EXCEPT ![p].content = c]
    /\ edits_left' = edits_left - 1
    /\ UNCHANGED <<cfg, cache_file, clock, pc, scanVars, last, prev, scans_left, git_ok,
                   raised, toolVars>>

DeleteFile(p) ==
    /\ CanEdit
    /\ fs[p].link # "absent"
    /\ fs' = [fs EXCEPT ![p] = NoFile]
    /\ edits_left' = edits_left - 1
    /\ UNCHANGED <<cfg, cache_file, clock, pc, scanVars, last, prev, scans_left, git_ok,
                   raised, toolVars>>

(***************************************************************************)
(* Specification Spec: scans of a tree the user edits between them, for    *)
(* each hash mode, with the cache off, at its default place under root or  *)
(* outside root.                                                           *)
(***************************************************************************)

HashModes == {"mtime", "fast", "full"}

\* coerce_int(config.get("entrypoints_limit"), 20), and the same for top_files
DEFAULT_LIST_LIMIT == 20

\* git_log is the history of the repository at root, which the runs leave
\* as it is
DefaultCfg ==
    [encoding_name    |-> "cl100k_base",
     tokenizer        |-> "tiktoken",
     max_file_tokens  |-> DEFAULT_MAX_FILE_TOKENS,
     max_file_size    |-> DEFAULT_MAX_FILE_SIZE,
     follow_symlinks  |-> FALSE,
     use_git          |-> FALSE,
     include_patterns |-> <<>>,
     exclude_patterns |-> <<>>,
     changed_paths    |-> {},
     changed_scope    |-> "files",
     changed_depth    |-> 1,
     workers          |-> 0,
     hash_mode        |-> "mtime",
     module_depth     |-> 1,
     cache_path       |-> "root",
     cache_enabled    |-> TRUE,
     cache_compress   |-> FALSE,
     prev_scan        |-> None,
     git_pathspec     |-> FALSE,
     churn_commits    |-> 0,
     entrypoints_limit |-> DEFAULT_LIST_LIMIT,
     top_files_limit  |-> DEFAULT_LIST_LIMIT,
     git_log          |-> <<>>,
     pathspec         |-> TRUE]

InitLocals ==
    /\ file_iter = <<>>
    /\ cache_files = EmptyMap
    /\ new_cache_files = EmptyMap
    /\ files = <<>>
    /\ skipped = <<>>
    /\ total_tokens = 0
    /\ cache_hits = 0
    /\ cache_misses = 0
    /\ tasks = <<>>
    /\ task_meta = EmptyMap
    /\ results = EmptyMap
    /\ hit_paths = {}
    /\ read_log = EmptyMap
    /\ start = NoStart

\* Before the first scan: no cache file yet, nothing scanned
InitOf(c, tree, nscans, nedits) ==
    /\ cfg = c
    /\ fs = tree
    /\ cache_file = NoFile
    /\ clock = 1
    /\ pc = "idle"
    /\ InitLocals
    /\ last = None
    /\ prev = None
    /\ scans_left = nscans
    /\ edits_left = nedits
    /\ git_ok = TRUE
    /\ raised = None
    /\ probe = None
    /\ planner = None
    /\ orch = None

\* The cache off, at default_cache_path(root), or at a --cache-path
\* outside root
CacheModes == {"off", "root", "external"}

WithCache(c, cm) ==
    [c EXCEPT !.cache_enabled = (cm # "off"),
              !.cache_path = IF cm = "external" THEN cm ELSE "root"]

TextTree == [p \in UserPaths |-> File(1, C_PRINT1)]

Init ==
    \E hm \in HashModes, cm \in CacheModes :
        InitOf(WithCache([DefaultCfg EXCEPT !.hash_mode = hm], cm), TextTree,
               MaxScans, MaxEdits)

Next ==
    \/ ScanStart(0)
    \/ Visit
    \/ RunTask
    \/ Finish
    \/ \E p \in UserPaths, c \in EditContents : WriteFile(p, c)
    \/ \E p \in UserPaths, c \in EditContents : RewriteInPlace(p, c)
    \/ \E p \in UserPaths : DeleteFile(p)

Spec == Init /\ [][Next]_vars

(***************************************************************************)
(* Specification SpecTouch: hash mode mtime, longer histories of touches   *)
(* and of edits that keep mtime and size.                                  *)
(***************************************************************************)

MaxTouchScans == 3

MaxTouchEdits == 2

\* touch: a new modification time, the same bytes
Touch(p) ==
    /\ fs[p].link = "none"
    /\ WriteFile(p, fs[p].content)

InitTouch ==
    \E cm \in {"root", "external"} :
        InitOf(WithCache(DefaultCfg, cm), TextTree, MaxTouchScans, MaxTouchEdits)

NextTouch ==
    \/ ScanStart(0)
    \/ Visit
    \/ RunTask
    \/ Finish
    \/ \E p \in UserPaths : Touch(p)
    \/ \E p \in UserPaths, c \in {C_PRINT1, C_UTF8} : RewriteInPlace(p, c)

SpecTouch == InitTouch /\ [][NextTouch]_vars

(***************************************************************************)
(* Specification SpecReconf: between two scans one argument of the run     *)
(* changes, or the cache file is one written under another CACHE_VERSION,  *)
(* or a file is deleted or turns binary.                                   *)
(***************************************************************************)

Reconfigure(field, value) ==
    /\ CanEdit
    /\ cfg[field] # value
    /\ cfg' = [cfg EXCEPT ![field] = value]
    /\ edits_left' = edits_left - 1
    /\ UNCHANGED <<fs, cache_file, clock, pc, scanVars, last, prev, scans_left, git_ok,
                   raised, toolVars>>

\* the cache file at cache_path was written by a build whose CACHE_VERSION
\* is another one
OtherVersionCache ==
    /\ CanEdit
    /\ cache_file.link # "absent"
    /\ cache_file' = [cache_file EXCEPT !.content.data.version = CACHE_VERSION + 1]
    /\ edits_left' = edits_left - 1
    /\ UNCHANGED <<cfg, fs, clock, pc, scanVars, last, prev, scans_left, git_ok,
                   raised, toolVars>>

\* arguments the cache header records
HeaderChanges ==
    { <<"encoding_name", "o200k_base">>, <<"encoding_name", "no_such_base">>,
      <<"tokenizer", "heuristic">>,
      <<"max_file_tokens", 1>>, <<"max_file_size", 7>>,
      <<"hash_mode", "mtime">>, <<"hash_mode", "fast">>, <<"hash_mode", "full">>,
      <<"cache_compress", TRUE>> }

\* arguments it does not record: filters and the module depth
FilterChanges ==
    { <<"include_patterns", << <<"*", ".", "p", "y">> >> >>,
      <<"exclude_patterns", << <<"b", "/", "*">> >> >>,
      <<"changed_paths", {PA}>>,
      <<"module_depth", 2>> }

InitReconf ==
    \E hm \in HashModes, cm \in {"root", "external"} :
        InitOf(WithCache([DefaultCfg EXCEPT !.hash_mode = hm], cm), TextTree,
               MaxScans, MaxEdits)

NextReconf ==
    \/ ScanStart(0)
    \/ MainRejects
    \/ Visit
    \/ RunTask
    \/ Finish
    \/ \E ch \in HeaderChanges \cup FilterChanges : Reconfigure(ch[1], ch[2])
    \/ OtherVersionCache
    \/ \E p \in UserPaths : WriteFile(p, C_NUL)
    \/ \E p \in UserPaths : DeleteFile(p)

SpecReconf == InitReconf /\ [][NextReconf]_vars

(***************************************************************************)
(* Specification SpecWorkers: scans of a tree nobody edits, in-process or  *)
(* with a pool of four workers whose tasks complete in any order.          *)
(***************************************************************************)

MaxWorkerScans == 3

Unreadable(file) == [file EXCEPT !.readable = FALSE]

InitWorkers ==
    \E hm \in HashModes, cm \in {"off", "external"},
       fa \in {File(1, C_PRINT1), File(1, C_NUL), Unreadable(File(1, C_PRINT1))},
       fb \in {File(1, C_PRINT1), File(1, C_UTF8), File(1, C_SPECIAL)} :
        InitOf(WithCache([DefaultCfg EXCEPT !.hash_mode = hm], cm),
               (PA :> fa) @@ (PB :> fb), MaxWorkerScans, 0)

NextWorkers ==
    \/ \E w \in {0, 4} : ScanStart(w)
    \/ Visit
    \/ RunTask
    \/ \E i \in DOMAIN tasks : WorkerTask(i)
    \/ MergeResult
    \/ Finish

SpecWorkers == InitWorkers /\ [][NextWorkers]_vars

(***************************************************************************)
(* Specification SpecFilter: one scan of trees that hold every kind of     *)
(* candidate, under the filters and both enumerators.                      *)
(***************************************************************************)

MaxFilterScans == 1

\* nine bytes
C_BIG == Bytes(<<112, 114, 105, 110, 116, 40, 49, 50, 41>>)

\* a symbolic link to a regular file, and a dangling one
LinkTo(file) == [file EXCEPT !.link = "file"]

BrokenLink == [link |-> "broken"]

\* ceilings that the contents of the model reach
TightCfg == [DefaultCfg EXCEPT !.max_file_tokens = 2, !.max_file_size = 8]

FilterCfgs ==
    { TightCfg,
      [TightCfg EXCEPT !.include_patterns = << <<"*", ".", "p", "y">> >>],
      [TightCfg EXCEPT !.exclude_patterns = << <<"b", "/", "*">> >>],
      [TightCfg EXCEPT !.changed_paths = {PA, PB, PV}, !.use_git = TRUE],
      [TightCfg EXCEPT !.changed_paths = {PA}],
      [TightCfg EXCEPT !.changed_paths = {PB}, !.changed_scope = "modules"],
      [TightCfg EXCEPT !.pathspec = FALSE],
      [TightCfg EXCEPT !.follow_symlinks = TRUE] }

InitFilter ==
    \E c \in FilterCfgs,
       fa \in {File(1, C_UTF8), File(1, C_PRINT1), File(1, C_NUL), File(1, C_BIG),
               Unreadable(File(1, C_UTF8)), LinkTo(File(1, C_UTF8)),
               LinkTo(File(1, C_BIG)), BrokenLink, NoFile},
       fb \in {File(1, C_UTF8), File(1, C_NUL), Unreadable(File(1, C_UTF8))},
       fv \in {File(1, C_UTF8), NoFile} :
        InitOf(WithCache(c, "external"), (PA :> fa) @@ (PB :> fb) @@ (PV :> fv),
               MaxFilterScans, 0)

NextFilter ==
    \/ \E w \in {0, 4} : ScanStart(w)
    \/ Visit
    \/ RunTask
    \/ \E i \in DOMAIN tasks : WorkerTask(i)
    \/ MergeResult
    \/ Finish

SpecFilter == InitFilter /\ [][NextFilter]_vars

(***************************************************************************)
(* Specification SpecDiff: the second scan may be given the artifact of    *)
(* the first as its previous scan, after a file of the tree was written,   *)
(* created under a new module, or deleted.                                 *)
(***************************************************************************)

\* the only file of a module the tree does not hold at first
PD == <<"c", "/", "x", ".", "p", "y">>

\* --prev-scan: the artifact of the latest scan, a path that holds no scan
\* artifact, or no previous scan
SupplyPrev(given) ==
    /\ pc = "idle"
    /\ last # None
    /\ scans_left > 0
    /\ given \in {None, Some(NoArtifact),
                  Some([hashes |-> last[1].result.module_hashes,
                        order  |-> last[1].result.module_labels])}
    /\ cfg.prev_scan # given
    /\ cfg' = [cfg EXCEPT !.prev_scan = given]
    /\ UNCHANGED <<fs, cache_file, clock, pc, scanVars, last, prev, scans_left,
                   edits_left, git_ok, raised, toolVars>>

InitDiff ==
    \E hm \in HashModes :
        InitOf(WithCache([DefaultCfg EXCEPT !.hash_mode = hm], "external"),
               TextTree @@ (PD :> NoFile), MaxScans, MaxEdits)

NextDiff ==
    \/ ScanStart(0)
    \/ Visit
    \/ RunTask
    \/ Finish
    \/ \E p \in UserPaths \cup {PD}, c \in {C_PRINT1, C_PRINT2, C_NUL} : WriteFile(p, c)
    \/ \E p \in UserPaths : DeleteFile(p)
    \/ SupplyPrev(None)
    \/ SupplyPrev(Some(NoArtifact))
    \/ SupplyPrev(Some([hashes |-> last[1].result.module_hashes,
                        order  |-> last[1].result.module_labels]))

SpecDiff == InitDiff /\ [][NextDiff]_vars

(***************************************************************************)
(* Specification SpecGit: scans that take their candidates from git, in a  *)
(* root where the git command may stop working and a worker of the pool    *)
(* may die.                                                                *)
(***************************************************************************)

\* the git binary is removed, or `git ls-files` starts to exit non-zero
BreakGit ==
    /\ pc = "idle"
    /\ edits_left > 0
    /\ scans_left > 0
    /\ git_ok
    /\ git_ok' = FALSE
    /\ edits_left' = edits_left - 1
    /\ UNCHANGED <<cfg, fs, cache_file, clock, pc, scanVars, last, prev, scans_left,
                   raised, toolVars>>

GitCfgs ==
    { [DefaultCfg EXCEPT !.use_git = TRUE, !.git_pathspec = TRUE],
      [DefaultCfg EXCEPT !.use_git = TRUE],
      [DefaultCfg EXCEPT !.use_git = TRUE, !.git_pathspec = TRUE,
                         !.include_patterns = << <<"a", "/", "*">> >>],
      [DefaultCfg EXCEPT !.use_git = TRUE, !.git_pathspec = TRUE,
                         !.exclude_patterns = << <<"b", "/", "*">> >>],
      [DefaultCfg EXCEPT !.use_git = TRUE, !.changed_paths = {PA}] }

InitGit ==
    \E c \in GitCfgs, hm \in HashModes, cm \in {"root", "external"} :
        InitOf(WithCache([c EXCEPT !.hash_mode = hm], cm), TextTree, MaxScans, MaxEdits)

NextGit ==
    \/ \E w \in {0, 4} : ScanStart(w)
    \/ Visit
    \/ RunTask
    \/ \E i \in DOMAIN tasks : WorkerTask(i)
    \/ MergeResult
    \/ PoolBreaks
    \/ Finish
    \/ BreakGit
    \/ \E p \in UserPaths : WriteFile(p, C_PRINT2)

SpecGit == InitGit /\ [][NextGit]_vars

(***************************************************************************)
(* Specification SpecOrder: scans of one tree whose candidates come in any *)
(* order.  os.walk yields the entries of a directory in the order of the   *)
(* directory listing, which the file system chooses; the model lets the    *)
(* candidates come in every order, those of a walk included.               *)
(***************************************************************************)

\* the enumerator yields two neighbouring candidates the other way round
Shuffle(i) ==
    /\ pc = "walk"
    /\ Len(file_iter) = Cardinality(start.yielded)
    /\ i \in 1..(Len(file_iter) - 1)
    /\ file_iter' = [file_iter EXCEPT ![i] = file_iter[i + 1], ![i + 1] = file_iter[i]]
    /\ UNCHANGED <<cfg, fs, cache_file, clock, pc, cache_files, new_cache_files, files,
                   skipped, total_tokens, cache_hits, cache_misses, tasks, task_meta,
                   results, hit_paths, read_log, start, last, prev, scans_left,
                   edits_left, git_ok, raised, toolVars>>

InitOrder ==
    \E hm \in HashModes, cm \in {"off", "external"},
       fa \in {File(1, C_PRINT1), File(1, C_UTF8)} :
        InitOf(WithCache([DefaultCfg EXCEPT !.hash_mode = hm], cm),
               (PA :> fa) @@ (PB :> File(1, C_PRINT1)) @@ (PC :> File(1, C_PRINT2)),
               MaxOrderScans, 0)

NextOrder ==
    \/ \E w \in {0, 4} : ScanStart(w)
    \/ \E i \in 1..2 : Shuffle(i)
    \/ Visit
    \/ RunTask
    \/ \E i \in DOMAIN tasks : WorkerTask(i)
    \/ MergeResult
    \/ Finish

SpecOrder == InitOrder /\ [][NextOrder]_vars

(***************************************************************************)
(* Specification SpecStrip: scans in the hash modes fast and full of a     *)
(* tree whose cache file may come back without its content hashes and      *)
(* whose files may be rewritten in place.                                  *)
(***************************************************************************)

\* the cache file at cache_path is replaced by one with the same header
\* whose entries store no content_hash
StripHashes ==
    /\ CanEdit
    /\ cache_file.link # "absent"
    /\ \E q \in DOMAIN cache_file.content.data.files :
           HasHash(cache_file.content.data.files[q])
    /\ cache_file' =
           [cache_file EXCEPT !.content.data.files =
               [q \in DOMAIN @ |-> [mtime |-> @[q].mtime, size |-> @[q].size,
                                    tokens |-> @[q].tokens]]]
    /\ edits_left' = edits_left - 1
    /\ UNCHANGED <<cfg, fs, clock, pc, scanVars, last, prev, scans_left, git_ok,
                   raised, toolVars>>

InitStrip ==
    \E hm \in {"fast", "full"}, w \in {0, 4} :
        InitOf(WithCache([DefaultCfg EXCEPT !.hash_mode = hm, !.workers = w], "external"),
               TextTree, MaxStripScans, MaxStripEdits)

NextStrip ==
    \/ ScanStart(cfg.workers)
    \/ Visit
    \/ RunTask
    \/ \E i \in DOMAIN tasks : WorkerTask(i)
    \/ MergeResult
    \/ Finish
    \/ StripHashes
    \/ \E p \in UserPaths, c \in {C_PRINT2, C_NUL} : RewriteInPlace(p, c)

SpecStrip == InitStrip /\ [][NextStrip]_vars

(***************************************************************************)
(* Specification SpecRace: files are written while a scan is running,      *)
(* between the iterations of the walk and between the tasks; every write   *)
(* gives the file a modification time it never had.                        *)
(***************************************************************************)

\* another process writes a file during the walk or while tasks run
WriteDuringScan(p, c) ==
    /\ pc \in {"walk", "tasks"}
    /\ edits_left > 0
    /\ fs[p].link = "none"
    /\ c # fs[p].content
    /\ fs' = [fs EXCEPT ![p] = File(clock + 1, c)]
    /\ clock' = clock + 1
    /\ edits_left' = edits_left - 1
    /\ UNCHANGED <<cfg, cache_file, pc, scanVars, last, prev, scans_left, git_ok,
                   raised, toolVars>>

InitRace ==
    \E hm \in {"mtime", "fast"}, w \in {0, 4} :
        InitOf(WithCache([DefaultCfg EXCEPT !.hash_mode = hm, !.workers = w], "external"),
               TextTree, MaxRaceScans, MaxRaceEdits)

NextRace ==
    \/ ScanStart(cfg.workers)
    \/ Visit
    \/ RunTask
    \/ \E i \in DOMAIN tasks : WorkerTask(i)
    \/ MergeResult
    \/ Finish
    \/ \E c \in {C_UTF8, C_BIG} : WriteDuringScan(PA, c)
    \/ \E c \in {C_UTF8, C_BIG} : WriteFile(PA, c)

SpecRace == InitRace /\ [][NextRace]_vars

(***************************************************************************)
(* Specification SpecSkip: repeated scans of a tree with a file whose task *)
(* ends in a SkipRecord (NUL byte past the sniffed prefix, token ceiling,  *)
(* unreadable file), in every hash mode.                                   *)
(***************************************************************************)

InitSkip ==
    \E hm \in HashModes, ceiling \in {DEFAULT_MAX_FILE_TOKENS, LOW_CEILING},
       fa \in {File(1, C_PRINT1), File(1, C_NUL), Unreadable(File(1, C_PRINT1))} :
        InitOf(WithCache([DefaultCfg EXCEPT !.hash_mode = hm,
                                            !.max_file_tokens = ceiling], "external"),
               (PA :> fa) @@ (PB :> File(1, C_UTF8)), MaxSkipScans, MaxSkipEdits)

NextSkip ==
    \/ \E w \in {0, 4} : ScanStart(w)
    \/ Visit
    \/ RunTask
    \/ \E i \in DOMAIN tasks : WorkerTask(i)
    \/ MergeResult
    \/ Finish
    \/ \E c \in {C_PRINT2, C_NUL} : WriteFile(PA, c)

SpecSkip == InitSkip /\ [][NextSkip]_vars

(***************************************************************************)
(* Specification SpecReport: one scan of a repository with entry files,    *)
(* under every combination of list limits, commit counts and histories.    *)
(***************************************************************************)

PN == <<"a", "/", "m", "a", "i", "n", ".", "p", "y">>

PE == <<"c", "m", "d", "/", "x", "/", "m", "a", "i", "n", ".", "p", "y">>

\* a path of the history that the tree no longer has
PG == <<"a", "/", "g", "o", "n", "e", ".", "p", "y">>

\* newest commit first; a commit names its paths in order
ReportLogs ==
    { << <<PN>>, <<PE, PN>> >>,
      << <<PG, PB>>, <<PE>>, <<PN, PE>> >> }

ReportTrees ==
    { (PN :> File(1, C_PRINT1)) @@ (PE :> File(1, C_UTF8)) @@ (PB :> File(1, C_BIG)),
      (PN :> File(1, C_UTF8)) @@ (PE :> File(1, C_UTF8)) @@ (PB :> File(1, C_UTF8)),
      (PN :> File(1, C_NUL)) @@ (PE :> File(1, C_NUL)) @@ (PB :> File(1, C_NUL)) }

InitReport ==
    \E tree \in ReportTrees, log \in ReportLogs, n \in {0, 1, 3},
       elimit \in {0, 1, DEFAULT_LIST_LIMIT}, tlimit \in {0, 2} :
        InitOf(WithCache([DefaultCfg EXCEPT !.git_log = log,
                                            !.churn_commits = n,
                                            !.entrypoints_limit = elimit,
                                            !.top_files_limit = tlimit], "off"),
               tree, MaxReportScans, MaxReportEdits)

\* the repository goes away before the scan: .git removed, or no git binary
LoseRepo ==
    /\ pc = "idle"
    /\ last = None
    /\ edits_left > 0
    /\ git_ok
    /\ git_ok' = FALSE
    /\ edits_left' = edits_left - 1
    /\ UNCHANGED <<cfg, fs, cache_file, clock, pc, scanVars, last, prev, scans_left,
                   raised, toolVars>>

NextReport ==
    \/ ScanStart(0)
    \/ Visit
    \/ RunTask
    \/ Finish
    \/ LoseRepo

SpecReport == InitReport /\ [][NextReport]_vars

(***************************************************************************)
(* Specification SpecFast: hash_data_fast applied to two contents of one   *)
(* length that differ in one byte of the first or of the last 4KB.         *)
(***************************************************************************)

\* The scanner is not running
ScannerIdle ==
    InitOf(DefaultCfg, EmptyMap, 0, 0)

FastLens ==
    {1, 100, FAST_CHUNK - 1, FAST_CHUNK, FAST_CHUNK + 1, 5000, 6000, 2 * FAST_CHUNK - 1,
     2 * FAST_CHUNK, 2 * FAST_CHUNK + 1, 9000, 3 * FAST_CHUNK, MaxFastLen}

\* The byte offsets (from 1) that lie in the first or in the last 4KB of a
\* content of n bytes
EdgeOffsets(n) == {k \in 1..n : k <= FAST_CHUNK \/ k > n - FAST_CHUNK}

\* n bytes "a", the byte at offset k replaced by v
Blob(n, k, v) == Bytes([i \in 1..n |-> IF i = k THEN v ELSE 97])

InitFast == ScannerIdle

\* hash_data_fast(data) for two contents
ProbeFast(n, k, v) ==
    /\ probe = None
    /\ n <= MaxFastLen
    /\ k \in EdgeOffsets(n)
    /\ probe' = Some([fn |-> "hash_data_fast", a |-> Blob(n, k, 97), b |-> Blob(n, k, v),
                      out_a |-> hash_data_fast(Blob(n, k, 97)),
                      out_b |-> hash_data_fast(Blob(n, k, v))])
    /\ UNCHANGED <<scannerVars, planner, orch>>

NextFast ==
    \E n \in FastLens :
        \E k \in {1, 50, FAST_CHUNK, FAST_CHUNK + 1, FAST_CHUNK + 500,
                  n - FAST_CHUNK + 1, n - 1, n},
           v \in {0, 98} :
            ProbeFast(n, k, v)

SpecFast == InitFast /\ [][NextFast]_vars

(***************************************************************************)
(* Specification SpecPush: a git-aware scan without pathspec pushdown and  *)
(* then the same scan with it, under include and exclude patterns.         *)
(***************************************************************************)

PushIncludes ==
    { <<>>, << <<"*", ".", "p", "y">> >>, << <<"a", "/", "*">> >>,
      << <<"b", "/", "*">>, <<"a", "/", "*", ".", "m", "d">> >> }

PushExcludes ==
    { <<>>, << <<"*", ".", "m", "d">> >>, << <<"b", "/", "*">> >> }

InitPush ==
    \E inc \in PushIncludes, exc \in PushExcludes :
        InitOf(WithCache([DefaultCfg EXCEPT !.use_git = TRUE,
                                            !.include_patterns = inc,
                                            !.exclude_patterns = exc], "off"),
               TextTree, MaxPushScans, MaxPushEdits)

\* the next run is started with --git-pathspec
EnablePushdown ==
    /\ CanEdit
    /\ ~cfg.git_pathspec
    /\ cfg' = [cfg EXCEPT !.git_pathspec = TRUE]
    /\ edits_left' = edits_left - 1
    /\ UNCHANGED <<fs, cache_file, clock, pc, scanVars, last, prev, scans_left, git_ok,
                   raised, toolVars>>

NextPush ==
    \/ ScanStart(0)
    \/ Visit
    \/ RunTask
    \/ Finish
    \/ EnablePushdown

SpecPush == InitPush /\ [][NextPush]_vars

(***************************************************************************)
(* Specification SpecTokens: count_tokens applied to the decoded content   *)
(* of a file, with one-, two- and three-byte characters and stray bytes.   *)
(***************************************************************************)

\* "a", U+00E9, U+20AC, ten ASCII letters, and a byte that is no UTF-8
TokenUnits ==
    { <<97>>, <<195, 169>>, <<226, 130, 172>>,
      <<97, 98, 99, 100, 101, 102, 103, 104, 105, 106>>, <<255>> }

TokenContents ==
    {Bytes(Flatten(us)) : us \in UNION {[1..n -> TokenUnits] : n \in 0..MaxChars}}
        \cup {C_SPECIAL}

\* heuristic mode, the exact encoder, and an encoding that cannot be loaded
TokenModes ==
    { <<"heuristic", "cl100k_base">>, <<"tiktoken", "cl100k_base">>,
      <<"tiktoken", "no_such_base">> }

InitTokens == ScannerIdle

\* process_file_task's decode_text and count_tokens for one content
ProbeTokens(data, mode) ==
    /\ probe = None
    /\ probe' = Some([fn |-> "count_tokens", data |-> data,
                      tokenizer |-> mode[1], encoding_name |-> mode[2],
                      out |-> count_tokens(decode_text(data), mode[1], mode[2])])
    /\ UNCHANGED <<scannerVars, planner, orch>>

NextTokens == \E data \in TokenContents, mode \in TokenModes : ProbeTokens(data, mode)

SpecTokens == InitTokens /\ [][NextTokens]_vars

(***************************************************************************)
(* plan-assignments.py.  The planner reads the "files" of a scan, groups   *)
(* them by directory (split_groups) and packs the groups into buckets      *)
(* (assign_groups).  planner is None before the program is started and     *)
(* then holds its position and locals:                                     *)
(*   pc      "split", "sort", "assign", "done", or "exit1" after           *)
(*           sys.exit(1);                                                  *)
(*   work    the result list of the outermost split_groups, in order, in   *)
(*           which a recursive call that has not run yet stands as an item *)
(*           of kind "call" where its groups will be spliced in;           *)
(*   sorted  the groups assign_groups has still to place;                  *)
(*   buckets the buckets built so far.                                     *)
(***************************************************************************)

\* group_label of plan-assignments.py, for the relative paths of a scan, whose
\* parts are what lies between the slashes: the label is the path itself when
\* it has no more than depth parts, and otherwise the path up to the end of
\* part number depth, counted from the end when depth is negative (parts[:depth])
plan_group_label(path, depth) ==
    LET slashes == {i \in DOMAIN path : path[i] = "/"}
        n       == Cardinality(slashes) + 1
        keep    == IF n <= depth THEN n
                   ELSE IF depth >= 0 THEN depth
                   ELSE Max(n + depth, 0)
        key     == IF keep = n THEN path
                   ELSE IF keep = 0 THEN <<>>
                   ELSE SubSeq(path, 1,
                            (CHOOSE i \in slashes :
                                 Cardinality({j \in slashes : j <= i}) = keep) - 1)
    IN  IF key = <<>> THEN <<".">> ELSE key

\* the (key, items) pairs of the dict, in insertion order: a key stands where
\* the first file with that label stands
group_by_depth(fileList, depth) ==
    LET firsts == {i \in DOMAIN fileList : \A j \in 1..(i - 1) :
                       plan_group_label(fileList[j].path, depth)
                           # plan_group_label(fileList[i].path, depth)}
    IN  [k \in 1..Cardinality(firsts) |->
            LET i   == CHOOSE f \in firsts : Cardinality({j \in firsts : j <= f}) = k
                key == plan_group_label(fileList[i].path, depth)
            IN  [key   |-> key,
                 items |-> SelectSeq(fileList,
                               LAMBDA f : plan_group_label(f.path, depth) = key)]]

TokenSum(items) ==
    LET sum[k \in 0..Len(items)] == IF k = 0 THEN 0 ELSE sum[k - 1] + items[k].tokens
    IN  sum[Len(items)]

\* sorted(items, key=tokens, reverse=True): descending, and files with equal
\* tokens keep their order
sorted_by_tokens(items) ==
    LET before(i) == {j \in DOMAIN items :
                         \/ items[j].tokens > items[i].tokens
                         \/ items[j].tokens = items[i].tokens /\ j < i}
    IN  [k \in DOMAIN items |->
            items[CHOOSE i \in DOMAIN items : Cardinality(before(i)) = k - 1]]

PlanGroup(label, tokens, fileList) ==
    [kind |-> "group", label |-> label, tokens |-> tokens, files |-> fileList, depth |-> 0]

PlanCall(fileList, depth) ==
    [kind |-> "call", label |-> <<>>, tokens |-> 0, files |-> fileList, depth |-> depth]

\* the fallback keeps only the largest file of the group
split_group_largest_only(g, depth, max_depth, max_tokens) ==
    LET total == TokenSum(g.items)
        bySize == sorted_by_tokens(g.items)
    IN  IF total > max_tokens /\ depth < max_depth
        THEN <<PlanCall(g.items, depth + 1)>>
        ELSE IF total > max_tokens
        THEN <<PlanGroup(bySize[1].path, bySize[1].tokens, <<bySize[1]>>)>>
        ELSE <<PlanGroup(g.key, total, g.items)>>

\* one pass of the loop of split_groups over a (key, items) pair: what the
\* pass adds to result
split_group(g, depth, max_depth, max_tokens) ==
    LET total == TokenSum(g.items)
        bySize == sorted_by_tokens(g.items)
    IN  IF total > max_tokens /\ depth < max_depth
        THEN <<PlanCall(g.items, depth + 1)>>
        ELSE IF total > max_tokens
        THEN [i \in 1..Len(bySize) |->
                 PlanGroup(bySize[i].path, bySize[i].tokens, <<bySize[i]>>)]
        ELSE <<PlanGroup(g.key, total, g.items)>>

\* the body of split_groups for one call: result after the loop over gs
split_each(gs, depth, max_depth, max_tokens) ==
    LET result[k \in 0..Len(gs)] ==
            IF k = 0 THEN <<>>
            ELSE result[k - 1] \o split_group(gs[k], depth, max_depth, max_tokens)
    IN  result[Len(gs)]

\* every group fits every bucket
assign_group_no_budget(buckets, group, max_tokens) ==
    LET fits == DOMAIN buckets
    IN  IF fits = {} THEN Append(buckets, [tokens |-> group.tokens, groups |-> <<group>>])
        ELSE LET best == CHOOSE b \in fits : \A c \in fits :
                             \/ buckets[b].tokens < buckets[c].tokens
                             \/ buckets[b].tokens = buckets[c].tokens /\ b <= c
             IN  [buckets EXCEPT ![best] =
                      [tokens |-> @.tokens + group.tokens,
                       groups |-> Append(@.groups, group)]]

\* one pass of the loop of assign_groups: the fullest-so-far test keeps the
\* first of the least filled buckets that still have room for the group
assign_group(buckets, group, max_tokens) ==
    LET fits == {b \in DOMAIN buckets : buckets[b].tokens + group.tokens <= max_tokens}
    IN  IF fits = {} THEN Append(buckets, [tokens |-> group.tokens, groups |-> <<group>>])
        ELSE LET best == CHOOSE b \in fits : \A c \in fits :
                             \/ buckets[b].tokens < buckets[c].tokens
                             \/ buckets[b].tokens = buckets[c].tokens /\ b <= c
             IN  [buckets EXCEPT ![best] =
                      [tokens |-> @.tokens + group.tokens,
                       groups |-> Append(@.groups, group)]]

PlanPaths ==
    << <<"s", "/", "a", "/", "x">>, <<"s", "/", "a", "/", "y">>, <<"s", "/", "b">>, <<"t">> >>

\* the token count of each path of PlanPaths; -1 leaves the path out
PlanTokens == {-1, 0, 2, 5}

PlanFileList(t) ==
    SelectSeq([i \in DOMAIN PlanPaths |-> [path |-> PlanPaths[i], tokens |-> t[i]]],
              LAMBDA f : f.tokens >= 0)

PlanFileLists == {PlanFileList(t) : t \in [DOMAIN PlanPaths -> PlanTokens]}

PlanDepths == {-1, 0, 1, 2}

PlanMaxDepths == {1, MaxPlanDepth}

PlanBudgets == {0, 4, 6}

InitPlan == ScannerIdle

\* main up to the call of split_groups, without --changed
PlanStart(fileList, depth, max_depth, max_tokens) ==
    /\ planner = None
    /\ planner' = Some([pc |-> IF fileList = <<>> THEN "exit1" ELSE "split",
                        files |-> fileList, depth |-> depth, max_depth |-> max_depth,
                        max_tokens |-> max_tokens,
                        work |-> IF fileList = <<>> THEN <<>>
                                 ELSE <<PlanCall(fileList, depth)>>,
                        sorted |-> <<>>, buckets |-> <<>>])
    /\ UNCHANGED <<scannerVars, probe, orch>>

\* split_groups runs the innermost call that is first in result order
SplitStep ==
    /\ planner # None
    /\ planner[1].pc = "split"
    /\ \E st \in {planner[1]} :
       \E calls \in {{i \in DOMAIN st.work : st.work[i].kind = "call"}} :
           IF calls = {}
           THEN planner' = Some([st EXCEPT !.pc = "sort"])
           ELSE \E i \in {c \in calls : \A d \in calls : c <= d} :
                \E gs \in {group_by_depth(st.work[i].files, st.work[i].depth)} :
                    planner' = Some([st EXCEPT !.work =
                        SubSeq(st.work, 1, i - 1)
                        \o split_each(gs, st.work[i].depth, st.max_depth, st.max_tokens)
                        \o SubSeq(st.work, i + 1, Len(st.work))])
    /\ UNCHANGED <<scannerVars, probe, orch>>

\* groups_sorted of assign_groups
SortGroups ==
    /\ planner # None
    /\ planner[1].pc = "sort"
    /\ planner' = Some([planner[1] EXCEPT !.pc = "assign",
                                         !.sorted = sorted_by_tokens(planner[1].work)])
    /\ UNCHANGED <<scannerVars, probe, orch>>

AssignStep ==
    /\ planner # None
    /\ planner[1].pc = "assign"
    /\ LET st == planner[1]
       IN  IF st.sorted = <<>>
           THEN planner' = Some([st EXCEPT !.pc = "done"])
           ELSE planner' = Some([st EXCEPT
                    !.buckets = assign_group(st.buckets, Head(st.sorted), st.max_tokens),
                    !.sorted = Tail(st.sorted)])
    /\ UNCHANGED <<scannerVars, probe, orch>>

NextPlan ==
    \/ /\ planner = None
       /\ \E fileList \in PlanFileLists, depth \in PlanDepths, max_depth \in PlanMaxDepths,
             max_tokens \in PlanBudgets : PlanStart(fileList, depth, max_depth, max_tokens)
    \/ SplitStep
    \/ SortGroups
    \/ AssignStep

SpecPlan == InitPlan /\ [][NextPlan]_vars

\* the steps of the started program
PlanRun == SplitStep \/ SortGroups \/ AssignStep

\* the scans given to the planner where its termination is checked: no
\* files, or all of PlanPaths with the last one small
PlanLiveLists ==
    {<<>>} \cup {l \in PlanFileLists : Len(l) = Len(PlanPaths) /\ l[Len(l)].tokens = 2
                                       /\ \A i \in DOMAIN l : l[i].tokens > 0}

PlanLiveDepths == {-1, 1}

PlanLiveBudgets == {4, 6}

NextPlanLive ==
    \/ \E fileList \in PlanLiveLists, depth \in PlanLiveDepths,
          max_depth \in PlanMaxDepths, max_tokens \in PlanLiveBudgets :
              PlanStart(fileList, depth, max_depth, max_tokens)
    \/ PlanRun

\* the started planner is one sequential process: a step it can take, it
\* takes; whether it is started at all is up to the user
SpecPlanLive == InitPlan /\ [][NextPlanLive]_vars /\ WF_vars(PlanRun)

(***************************************************************************)
(* run-mapper.py.  The orchestrator runs the steps of a mode as child      *)
(* processes, one after the other.  orch is None before the program is     *)
(* started and then holds its position and a record of what it did:        *)
(*   pc       "preflight", "prompt", "run" (before the if of step number   *)
(*            at), "wait" (a child is running), or "exited";               *)
(*   started  the steps whose command has been run, in order;              *)
(*   codes    the returncode of each child that has ended, in order;       *)
(*   declined whether the user refused the confirmation prompt;            *)
(*   status   the exit status of the orchestrator, once it has exited.     *)
(***************************************************************************)

DEFAULT_CONFIRM_THRESHOLD == 500000

build_steps(mode) ==
    IF mode = "risk" THEN <<"risk", "merge">>
    ELSE IF mode = "quick" THEN <<"scan", "plan">>
    ELSE IF mode = "update" THEN <<"changes", "scan", "plan", "risk", "merge">>
    ELSE <<"scan", "plan", "risk", "merge">>

\* the order of the if statements of main that run the steps
STEP_ORDER == <<"changes", "scan", "plan", "risk", "merge">>

\* what the parent process sees of sys.exit(code) on POSIX: the low eight bits
ExitStatus(code) == code % 256

\* the orchestrator goes on whatever the child returned
run_cmd_ignore_failure(st, returncode) ==
    [st EXCEPT !.codes = Append(@, returncode), !.pc = "run", !.at = @ + 1]

\* run_cmd once the child has ended with returncode
run_cmd(st, returncode) ==
    IF returncode # 0
    THEN [st EXCEPT !.codes = Append(@, returncode), !.pc = "exited",
                    !.status = Some(ExitStatus(returncode))]
    ELSE [st EXCEPT !.codes = Append(@, returncode), !.pc = "run", !.at = @ + 1]

OrchModes == {"quick", "full", "update", "risk"}

\* total_tokens of the previous scan.json; None when there is none
OrchPrevTokens ==
    {None, Some(0), Some(DEFAULT_CONFIRM_THRESHOLD), Some(DEFAULT_CONFIRM_THRESHOLD + 1)}

\* what the user types at the prompt; None is end of input
OrchAnswers == {None, Some(""), Some("n"), Some("y"), Some("yes"), Some("no")}

\* subprocess returncodes: an exit status, or minus the number of the signal
\* that ended the child
OrchReturnCodes == {0, 1, 2, 255, -9, -15}

InitOrch == ScannerIdle

\* main up to the preflight report
OrchStart(mode, yes, prev_tokens) ==
    /\ orch = None
    /\ orch' = Some([pc |-> "preflight", mode |-> mode, yes |-> yes,
                     prev_tokens |-> prev_tokens, steps |-> build_steps(mode),
                     at |-> 1, started |-> <<>>, codes |-> <<>>,
                     declined |-> FALSE, status |-> None])
    /\ UNCHANGED <<scannerVars, probe, planner>>

\* whether main asks for confirmation
OrchPreflight ==
    /\ orch # None
    /\ orch[1].pc = "preflight"
    /\ orch' = Some([orch[1] EXCEPT !.pc =
            IF /\ ~orch[1].yes
               /\ orch[1].prev_tokens # None
               /\ orch[1].prev_tokens[1] # 0
               /\ orch[1].prev_tokens[1] > DEFAULT_CONFIRM_THRESHOLD
            THEN "prompt" ELSE "run"])
    /\ UNCHANGED <<scannerVars, probe, planner>>

\* prompt_continue and the exit of main when it returns False
OrchAnswer(response) ==
    /\ orch # None
    /\ orch[1].pc = "prompt"
    /\ orch' = Some(IF response \in {Some("y"), Some("yes")}
                    THEN [orch[1] EXCEPT !.pc = "run"]
                    ELSE [orch[1] EXCEPT !.pc = "exited", !.declined = TRUE,
                                         !.status = Some(1)])
    /\ UNCHANGED <<scannerVars, probe, planner>>

\* one if statement of main: the step is run when the mode has it (the merge
\* only when both documents exist), otherwise main goes on; after the last if
\* main returns
OrchStep(docs_exist) ==
    /\ orch # None
    /\ orch[1].pc = "run"
    /\ orch' = Some(
           IF orch[1].at > Len(STEP_ORDER)
           THEN [orch[1] EXCEPT !.pc = "exited", !.status = Some(0)]
           ELSE IF /\ \E i \in DOMAIN orch[1].steps : orch[1].steps[i] = STEP_ORDER[orch[1].at]
                   /\ STEP_ORDER[orch[1].at] = "merge" => docs_exist
           THEN [orch[1] EXCEPT !.pc = "wait",
                                !.started = Append(@, STEP_ORDER[orch[1].at])]
           ELSE [orch[1] EXCEPT !.at = @ + 1])
    /\ UNCHANGED <<scannerVars, probe, planner>>

\* the child ends and run_cmd looks at its returncode
OrchChildEnds(returncode) ==
    /\ orch # None
    /\ orch[1].pc = "wait"
    /\ orch' = Some(run_cmd(orch[1], returncode))
    /\ UNCHANGED <<scannerVars, probe, planner>>

NextOrch ==
    \/ \E mode \in OrchModes, yes \in BOOLEAN, prev_tokens \in OrchPrevTokens :
           OrchStart(mode, yes, prev_tokens)
    \/ OrchPreflight
    \/ \E response \in OrchAnswers : OrchAnswer(response)
    \/ \E docs_exist \in BOOLEAN : OrchStep(docs_exist)
    \/ \E returncode \in OrchReturnCodes : OrchChildEnds(returncode)

SpecOrch == InitOrch /\ [][NextOrch]_vars

(***************************************************************************)
(* What the claims read off a finished scan.                               *)
(***************************************************************************)

Paths(fileList) == {fileList[i].path : i \in DOMAIN fileList}

RecordOf(fileList, p) == fileList[CHOOSE i \in DOMAIN fileList : fileList[i].path = p]

\* The token count of a content under the configuration of a scan
TokensOf(content, c) ==
    count_tokens(decode_text(content), c.tokenizer, c.encoding_name)

\* C1 as stated: every candidate accepted as a cache hit is reported with
\* the token count of the content the file holds during that scan, in
\* every hash mode and after any modifications and scans.
C1_HitReportsCurrentTokens ==
    last # None =>
        \A p \in last[1].hits :
            RecordOf(last[1].result.files, p).tokens
                = TokensOf(last[1].start_fs[p].content, last[1].cfg)

\* C1 amended: a candidate accepted as a cache hit is reported with the
\* token count of the loaded cache entry, an entry whose mtime and size are
\* the file's; the count is that of the file's content whenever the content
\* is still the one read when the entry's tokens were counted; hash mode
\* full accepts no hit.
C1_HitReportsEntryTokens ==
    last # None =>
        \A p \in last[1].hits :
            LET rec   == RecordOf(last[1].result.files, p)
                entry == last[1].loaded[p]
                file  == last[1].start_fs[p]
            IN  /\ last[1].cfg.hash_mode # "full"
                /\ rec.tokens = entry.tokens
                /\ entry.mtime = file.mtime
                /\ entry.size = ByteLen(file.content)
                /\ last[1].src[p] = Some(file.content)
                       => rec.tokens = TokensOf(file.content, last[1].cfg)

\* C1's case: a scan accepted as a hit a file whose content is the one its
\* entry was counted from, after the user edited the tree
C1_Witness ==
    /\ last # None
    /\ prev # None
    /\ \E q \in UserPaths : last[1].start_fs[q] # prev[1].start_fs[q]
    /\ \E p \in last[1].hits : last[1].src[p] = Some(last[1].start_fs[p].content)

\* Both scans of the comparison have finished, under one configuration
TwoScans == last # None /\ prev # None /\ last[1].cfg = prev[1].cfg

\* The file at a path is the same (or absent) at the start of both scans
SameFile(q) ==
    LET before == IF q \in DOMAIN prev[1].start_fs THEN prev[1].start_fs[q] ELSE NoFile
        after  == IF q \in DOMAIN last[1].start_fs THEN last[1].start_fs[q] ELSE NoFile
    IN  before = after

AllPaths == DOMAIN fs \cup {default_cache_path}

\* module_hashes.get(label)
Digest(h, label) ==
    IF label \in DOMAIN h.result.module_hashes
    THEN Some(h.result.module_hashes[label]) ELSE None

LabelOf(q) == group_label(q, cfg.module_depth)

\* C2: two successive scans with one configuration, between which no user
\* file is created, deleted or modified, return the same scan_hash and the
\* same module_hashes.
C2_UnchangedTreeSameDigests ==
    (TwoScans /\ \A q \in UserPaths : SameFile(q)) =>
        /\ last[1].result.scan_hash = prev[1].result.scan_hash
        /\ last[1].result.module_hashes = prev[1].result.module_hashes

\* C3: with the cache enabled, the files map of the cache a scan writes has
\* as keys exactly the paths of the scan's FileRecords, each with the
\* record's mtime, size and tokens; an entry of the loaded cache whose path
\* is no FileRecord of the scan is not in the new cache.
C3_CacheIsSnapshot ==
    (last # None /\ last[1].saved # None) =>
        LET saved  == last[1].saved[1].files
            fileList == last[1].result.files
        IN  /\ DOMAIN saved = Paths(fileList)
            /\ Len(fileList) = Cardinality(Paths(fileList))
            /\ \A q \in DOMAIN saved :
                   /\ saved[q].mtime = RecordOf(fileList, q).mtime
                   /\ saved[q].size = RecordOf(fileList, q).size_bytes
                   /\ saved[q].tokens = RecordOf(fileList, q).tokens
            /\ \A q \in DOMAIN last[1].loaded :
                   q \notin Paths(fileList) => q \notin DOMAIN saved

\* C3's case: the loaded cache held an entry for a file that
\* is still there, unchanged, and that the scan does not record
C3_Witness ==
    /\ last # None
    /\ prev # None
    /\ last[1].saved # None
    /\ last[1].result.files # <<>>
    /\ \E q \in DOMAIN last[1].loaded :
           /\ q \notin Paths(last[1].result.files)
           /\ SameFile(q)
           /\ last[1].start_fs[q].link = "none"

\* The header a scan under configuration c writes and expects
HeaderOf(c) ==
    [version         |-> CACHE_VERSION,
     encoding        |-> c.encoding_name,
     tokenizer       |-> c.tokenizer,
     max_file_tokens |-> c.max_file_tokens,
     max_file_size   |-> c.max_file_size,
     hash_mode       |-> c.hash_mode,
     cache_compress  |-> c.cache_compress]

\* The cache file found by scan h was written with a header field that
\* differs from the value of the run
HeaderMismatch(h) ==
    /\ h.cfg.cache_enabled
    /\ h.start_cache.link # "absent"
    /\ \E f \in DOMAIN HeaderOf(h.cfg) :
           h.start_cache.content.data[f] # HeaderOf(h.cfg)[f]

\* C4: when the cache on disk was written with a version, encoding name,
\* tokenizer kind, max_file_tokens, max_file_size, hash_mode or
\* cache_compress flag other than the run's, the scan loads no entry, has
\* no cache hit, and dispatches every file it records as a task.
C4_MismatchEmptiesCache ==
    (last # None /\ HeaderMismatch(last[1])) =>
        /\ last[1].loaded = EmptyMap
        /\ last[1].hits = {}
        /\ last[1].result.cache_hits = 0
        /\ Paths(last[1].result.files) \subseteq last[1].tasks
        /\ last[1].result.cache_misses = Cardinality(last[1].tasks)

\* C4's case: a scan found a cache whose header mismatches, holding an
\* entry for a file that is unchanged and that the scan records
C4_Witness ==
    /\ last # None
    /\ prev # None
    /\ HeaderMismatch(last[1])
    /\ \E q \in Paths(last[1].result.files) :
           /\ q \in DOMAIN last[1].start_cache.content.data.files
           /\ SameFile(q)

\* Between the scans the regular file at q got a new mtime and nothing else
TouchedOnly(q) ==
    /\ prev[1].start_fs[q].link = "none"
    /\ last[1].start_fs[q].link = "none"
    /\ prev[1].start_fs[q].content = last[1].start_fs[q].content
    /\ prev[1].start_fs[q].mtime # last[1].start_fs[q].mtime

InBoth == Paths(last[1].result.files) \cap Paths(prev[1].result.files)

\* C6: in hash mode full, the content_hash recorded for a path, in the
\* FileRecord and in the cache entry, differs between two scans if and only
\* if the bytes of the file differ between them; a change of mtime alone
\* leaves it unchanged.
C6_FullHashFollowsBytes ==
    (TwoScans /\ last[1].cfg.hash_mode = "full") =>
        \A q \in InBoth :
            LET after  == RecordOf(last[1].result.files, q)
                before == RecordOf(prev[1].result.files, q)
            IN  /\ HasHash(after) /\ HasHash(before)
                /\ (after.content_hash # before.content_hash)
                       <=> (last[1].start_fs[q].content # prev[1].start_fs[q].content)
                /\ last[1].saved # None =>
                       last[1].saved[1].files[q].content_hash = after.content_hash

\* C6's case: in hash mode full a file still recorded has new bytes, with
\* the cache in use
C6_Witness ==
    /\ TwoScans
    /\ last[1].cfg.hash_mode = "full"
    /\ last[1].saved # None
    /\ \E q \in InBoth \cap UserPaths :
           last[1].start_fs[q].content # prev[1].start_fs[q].content

\* C7: for one tree, one loaded cache and one configuration, a scan with
\* workers = 0 and a scan with workers = 4 have the same set of
\* FileRecords, the same set of SkipRecords, the same total_tokens and write
\* the same cache, whatever the order in which the tasks complete.
C7_WorkerCountInvariance ==
    (/\ last # None
     /\ prev # None
     /\ {last[1].cfg.workers, prev[1].cfg.workers} = {0, 4}
     /\ [last[1].cfg EXCEPT !.workers = 0] = [prev[1].cfg EXCEPT !.workers = 0]
     /\ last[1].start_fs = prev[1].start_fs
     /\ last[1].loaded = prev[1].loaded) =>
        /\ Range(last[1].result.files) = Range(prev[1].result.files)
        /\ Range(last[1].result.skipped) = Range(prev[1].result.skipped)
        /\ last[1].result.total_tokens = prev[1].result.total_tokens
        /\ last[1].saved = prev[1].saved

\* C7's case: a scan in-process and a scan with four workers of one tree
\* with one non-empty loaded cache, the pool having run two tasks or more
C7_Witness ==
    /\ last # None
    /\ prev # None
    /\ prev[1].cfg.workers = 0
    /\ last[1].cfg.workers = 4
    /\ last[1].start_fs = prev[1].start_fs
    /\ last[1].loaded = prev[1].loaded
    /\ last[1].loaded # EmptyMap
    /\ Cardinality(last[1].tasks) >= 2
    /\ last[1].result.files # <<>>
    /\ last[1].result.skipped # <<>>

\* The candidate passes the ignore, changed-set, include and exclude
\* filters of configuration c
PassesFilters(q, c) ==
    /\ ~should_ignore(q, ignore_patterns)
    /\ \/ c.changed_paths = {}
       \/ c.changed_scope = "files" /\ q \in c.changed_paths
       \/ /\ c.changed_scope # "files"
          /\ \E r \in c.changed_paths :
                 group_label(r, c.changed_depth) = group_label(q, c.changed_depth)
    /\ \/ c.include_patterns = <<>>
       \/ \E i \in DOMAIN c.include_patterns : fnmatch(q, c.include_patterns[i])
    /\ \A i \in DOMAIN c.exclude_patterns : ~fnmatch(q, c.exclude_patterns[i])

\* How many records of the list carry the path
Count(recordList, q) == Cardinality({i \in DOMAIN recordList : recordList[i].path = q})

\* C8: at the end of a scan every candidate that passed the ignore,
\* changed-set, include and exclude filters is exactly once in files or
\* exactly once in skipped, never in both; every other path is in neither.
C8_FilesXorSkipped ==
    last # None =>
        \A q \in AllPaths :
            LET inFiles   == Count(last[1].result.files, q)
                inSkipped == Count(last[1].result.skipped, q)
            IN  IF q \in last[1].yielded /\ PassesFilters(q, last[1].cfg)
                THEN inFiles + inSkipped = 1
                ELSE inFiles = 0 /\ inSkipped = 0

\* C8's case: a scan ended with a candidate in files, one in skipped and
\* one that a filter removed
C8_Witness ==
    /\ last # None
    /\ last[1].result.files # <<>>
    /\ last[1].result.skipped # <<>>
    /\ \E q \in last[1].yielded : ~PassesFilters(q, last[1].cfg)

\* The content of the regular file at q changed between the scans
ContentChanged(q) ==
    /\ prev[1].start_fs[q].link = "none"
    /\ last[1].start_fs[q].link = "none"
    /\ prev[1].start_fs[q].content # last[1].start_fs[q].content

Labels == {LabelOf(q) : q \in AllPaths}

\* Every file created, modified or deleted between the scans is under M
OnlyModuleChanged(M) == \A q \in AllPaths : LabelOf(q) # M => SameFile(q)

\* C10: if between two scans only files under module M are created,
\* modified or deleted, the digest of every other label is the same in
\* both scans.
C10_OtherDigestsUnchanged ==
    TwoScans =>
        \A M \in Labels :
            OnlyModuleChanged(M) =>
                \A L \in Labels \ {M} : Digest(last[1], L) = Digest(prev[1], L)

\* C10's case: a user file under M changed between the scans and another
\* label has a digest
C10_Witness ==
    /\ TwoScans
    /\ \E q \in UserPaths :
           /\ ~SameFile(q)
           /\ OnlyModuleChanged(LabelOf(q))
           /\ \E L \in Labels \ {LabelOf(q)} : Digest(last[1], L) # None

(***************************************************************************)
(* The module diff against a supplied previous scan                        *)
(***************************************************************************)

\* The latest scan was given a previous scan result
PrevSupplied == last # None /\ last[1].cfg.prev_scan # None

CurHashes == last[1].result.module_hashes

PrevHashes == last[1].cfg.prev_scan[1].hashes

ChangedSet == Range(last[1].result.changed_modules[1])

RemovedSet == Range(last[1].result.removed_modules[1])

\* Labels of both scans whose digests differ
DifferingLabels ==
    {l \in DOMAIN CurHashes \cap DOMAIN PrevHashes : CurHashes[l] # PrevHashes[l]}

\* Labels of the current scan only
NewLabels == DOMAIN CurHashes \ DOMAIN PrevHashes

\* C11 (as stated): with a previous scan supplied, changed_modules holds
\* exactly the labels present in both scans with differing digests; a new
\* module is not listed.
C11_ChangedIsDifferingInBoth ==
    PrevSupplied => ChangedSet = DifferingLabels

\* C11: with a previous scan supplied, changed_modules holds, once each,
\* exactly the labels of the current module_hashes whose digest differs
\* from the previous one or that the previous module_hashes lacks: a label
\* with an unchanged digest is absent, a new module is listed.
C11_ChangedIsDifferingOrNew ==
    PrevSupplied =>
        /\ ChangedSet = DifferingLabels \cup NewLabels
        /\ Len(last[1].result.changed_modules[1]) = Cardinality(ChangedSet)

\* A scan given the previous artifact finds a new module beside a module
\* whose digest is unchanged
C11_Witness ==
    /\ PrevSupplied
    /\ NewLabels # {}
    /\ NewLabels \subseteq ChangedSet
    /\ \E l \in DOMAIN CurHashes \cap DOMAIN PrevHashes :
           CurHashes[l] = PrevHashes[l] /\ l \notin ChangedSet

\* C12: with a previous scan supplied, removed_modules holds exactly the
\* keys of the previous module_hashes that are not keys of the current
\* one, and shares no label with changed_modules; with no previous scan
\* both fields are null.
C12_RemovedIsPrevOnly ==
    last # None =>
        IF last[1].cfg.prev_scan = None
        THEN /\ last[1].result.changed_modules = None
             /\ last[1].result.removed_modules = None
        ELSE /\ last[1].result.removed_modules # None
             /\ last[1].result.changed_modules # None
             /\ RemovedSet = DOMAIN PrevHashes \ DOMAIN CurHashes
             /\ ChangedSet \cap RemovedSet = {}

\* A scan given the previous artifact, after the only file of a module was
\* deleted, reports that module as removed
C12_Witness ==
    /\ PrevSupplied
    /\ RemovedSet # {}
    /\ DOMAIN CurHashes \cap DOMAIN PrevHashes # {}
    /\ prev # None
    /\ prev[1].result.removed_modules = None

(***************************************************************************)
(* The ceilings                                                            *)
(***************************************************************************)

\* At the start of the latest scan q is a file the scan stats and whose
\* size it looks at (a regular file, or a link to one that the scan
\* follows), larger than max_file_size
Oversize(q) ==
    LET file == last[1].start_fs[q]
    IN  /\ q \in last[1].yielded
        /\ PassesFilters(q, last[1].cfg)
        /\ file.link = "none" \/ (file.link = "file" /\ last[1].cfg.follow_symlinks)
        /\ ByteLen(file.content) > last[1].cfg.max_file_size

\* The records of the list that carry the path
RecordsOf(recordList, q) == {recordList[i] : i \in {j \in DOMAIN recordList : recordList[j].path = q}}

\* C13: a file that passes the filters and whose size exceeds max_file_size
\* is absent from files, is in skipped once with reason too_large and its
\* size, is never dispatched as a task nor served from the cache, and no
\* record of it carries a token count.
C13_OversizeIsSkippedUncounted ==
    last # None =>
        \A q \in DOMAIN last[1].start_fs :
            Oversize(q) =>
                /\ Count(last[1].result.files, q) = 0
                /\ RecordsOf(last[1].result.skipped, q) =
                       {[path |-> q, reason |-> "too_large",
                         size_bytes |-> ByteLen(last[1].start_fs[q].content)]}
                /\ Count(last[1].result.skipped, q) = 1
                /\ q \notin last[1].tasks
                /\ q \notin last[1].hits
                /\ last[1].saved # None => q \notin DOMAIN last[1].saved[1].files

\* A scan met an oversize file beside a file it admitted
C13_Witness ==
    /\ last # None
    /\ Oversize(PA)
    /\ \E i \in DOMAIN last[1].result.skipped :
           last[1].result.skipped[i].reason = "too_large"
    /\ last[1].result.files # <<>>

\* The token count a task of the latest scan measured for q
Measured(q) ==
    count_tokens(decode_text(last[1].read_log[q]), last[1].cfg.tokenizer,
                 last[1].cfg.encoding_name)

\* C14: in every scan of a sequence that reuses the cache, every FileRecord,
\* from a task or from a cache hit, has tokens <= the scan's
\* max_file_tokens; a file whose measured count exceeds the ceiling is in
\* skipped with reason too_many_tokens and the measured count, and not in
\* files.
C14_TokensWithinCeiling ==
    last # None =>
        /\ \A i \in DOMAIN last[1].result.files :
               last[1].result.files[i].tokens <= last[1].cfg.max_file_tokens
        /\ \A q \in DOMAIN last[1].read_log :
               (q \in last[1].tasks /\ ~HasNul(last[1].read_log[q], ByteLen(last[1].read_log[q]))
                   /\ Measured(q) > last[1].cfg.max_file_tokens) =>
                   /\ Count(last[1].result.files, q) = 0
                   /\ RecordsOf(last[1].result.skipped, q) =
                          {[path |-> q, reason |-> "too_many_tokens", tokens |-> Measured(q)]}

\* The ceiling was lowered between two scans: the cache file the second
\* scan starts from holds a count above the new ceiling for a file the
\* second scan rejects with too_many_tokens
C14_Witness ==
    /\ last # None
    /\ prev # None
    /\ last[1].start_cache.link # "absent"
    /\ \E q \in DOMAIN last[1].start_cache.content.data.files :
           /\ last[1].start_cache.content.data.files[q].tokens > last[1].cfg.max_file_tokens
           /\ q \in last[1].tasks
           /\ \E i \in DOMAIN last[1].result.skipped :
                  /\ last[1].result.skipped[i].path = q
                  /\ last[1].result.skipped[i].reason = "too_many_tokens"

(***************************************************************************)
(* Failures of the environment                                             *)
(***************************************************************************)

\* C15: when the candidates are to come from git and the git command
\* fails, the scan falls back to the filesystem walk and returns a
\* ScanResult with git_used = false; a failure of git never ends a scan
\* without a result.
C15_GitFailureFallsBack ==
    ~git_ok => raised # Some("CalledProcessError")

\* The task of q in the latest scan could not read its file
ReadFailed(q) == q \in last[1].tasks /\ ReadFails(last[1].start_fs[q])

\* C16: a read error of one task gives exactly one SkipRecord for its path,
\* with a read_error reason, and no FileRecord or cache entry for it; every
\* other task of the batch still contributes exactly one FileRecord or
\* SkipRecord; in-process and with a pool of workers.
C16_ReadErrorIsOneSkip ==
    last # None =>
        \A q \in last[1].tasks :
            IF ReadFails(last[1].start_fs[q])
            THEN /\ RecordsOf(last[1].result.skipped, q) =
                        {[path |-> q, reason |-> "read_error: cannot open"]}
                 /\ Count(last[1].result.skipped, q) = 1
                 /\ Count(last[1].result.files, q) = 0
                 /\ last[1].saved # None => q \notin DOMAIN last[1].saved[1].files
            ELSE Count(last[1].result.files, q) + Count(last[1].result.skipped, q) = 1

\* An in-process scan and a scan with four workers each met a read error
\* in a batch of two tasks, the other giving a FileRecord
C16_Witness ==
    /\ last # None
    /\ prev # None
    /\ prev[1].cfg.workers = 0
    /\ last[1].cfg.workers = 4
    /\ \A h \in {last[1], prev[1]} :
           /\ \E q \in h.tasks : ReadFails(h.start_fs[q])
           /\ Cardinality(h.tasks) >= 2
           /\ h.result.files # <<>>
    /\ ReadFailed(PA)

\* The exact tokenizer raises on the text the task of q read
TokenizerRaised(q) ==
    /\ q \in DOMAIN last[1].read_log
    /\ ~HasNul(last[1].read_log[q], ByteLen(last[1].read_log[q]))
    /\ last[1].cfg.tokenizer = "tiktoken"
    /\ encode_raises(decode_text(last[1].read_log[q]))

\* C17: when the exact tokenizer raises while encoding the text of a file,
\* the file is in skipped with a token_error reason and not in files.
C17_TokenizerErrorIsSkip ==
    last # None =>
        \A q \in last[1].tasks :
            TokenizerRaised(q) =>
                /\ Count(last[1].result.files, q) = 0
                /\ RecordsOf(last[1].result.skipped, q) =
                       {[path |-> q, reason |-> "token_error: raised"]}

\* A run starts: main is past its argument parsing
RunStarts == pc = "idle" /\ scans_left' = scans_left - 1

\* C18: with tokenizer tiktoken and an encoding that cannot be loaded, the
\* run ends with an error before scan_directory is entered: nothing is
\* enumerated or tokenized, and the cache file and the latest scan result
\* stay as they were.
C18_BadEncodingAbortsBeforeScan ==
    [][(RunStarts /\ cfg.tokenizer = "tiktoken" /\ ~get_encoding_ok(cfg.encoding_name)) =>
           /\ raised' = Some("SystemExit")
           /\ pc' = "idle"
           /\ UNCHANGED <<fs, cache_file, scanVars, last, prev>>]_vars

\* A run was rejected for its encoding after an earlier run had written the
\* cache file and returned a result
C18_Witness ==
    /\ raised = Some("SystemExit")
    /\ cfg.tokenizer = "tiktoken"
    /\ cfg.encoding_name \notin KnownEncodings
    /\ last # None
    /\ cache_file.link # "absent"
    /\ last[1].saved = Some(cache_file.content.data)

(***************************************************************************)
(* The digests and the order of the records                                *)
(***************************************************************************)

\* C19: scan_hash and every module_hashes[label] depend only on the set of
\* (path, size, mtime, tokens, content_hash) tuples of the FileRecords: two
\* scans whose files hold the same records, in whatever order they were
\* enumerated and merged, have the same scan_hash and the same
\* module_hashes.
C19_DigestsIgnoreOrder ==
    (/\ last # None
     /\ prev # None
     /\ Range(last[1].result.files) = Range(prev[1].result.files)
     /\ last[1].cfg.module_depth = prev[1].cfg.module_depth) =>
        /\ last[1].result.scan_hash = prev[1].result.scan_hash
        /\ last[1].result.module_hashes = prev[1].result.module_hashes

\* Two scans hold the same three records in two orders, the later one not
\* in the order of the paths
C19_Witness ==
    /\ last # None
    /\ prev # None
    /\ Range(last[1].result.files) = Range(prev[1].result.files)
    /\ Len(last[1].result.files) = 3
    /\ last[1].result.files # prev[1].result.files
    /\ last[1].result.files # SortedByPath(last[1].result.files)
    /\ last[1].result.scan_hash = prev[1].result.scan_hash

\* How many times scan h read the file at cache_path: load_cache opens it
\* when it exists, and a task opens it when it is a candidate of the scan
CacheReads(h) ==
    (IF h.cfg.cache_enabled /\ h.start_cache.link # "absent" THEN 1 ELSE 0)
        + (IF h.cfg.cache_path = "root" /\ default_cache_path \in DOMAIN h.read_log
           THEN 1 ELSE 0)

CacheReadAtMostOnce == last # None => CacheReads(last[1]) <= 1

\* The cache file changes only in the step that returns the result, when
\* every task result has been merged
CacheWrittenAtReturn ==
    cache_file' # cache_file =>
        /\ pc = "tasks"
        /\ cache_misses = Len(tasks)
        /\ \A i \in DOMAIN tasks :
               Count(files, tasks[i].rel_path) + Count(skipped, tasks[i].rel_path) = 1
        /\ pc' = "idle"
        /\ last' # None
        /\ last'[1].saved = Some(cache_file'.content.data)

\* A step in which a scan ends on an exception
Aborts == raised' # None /\ (raised = None \/ scans_left' # scans_left)

AbortKeepsCache == Aborts => cache_file' = cache_file /\ last' = last /\ pc' = "idle"

\* C20: within a scan the cache file is read at most once and written at
\* most once, the write coming after every task result has been merged; a
\* scan that ends on an exception of the enumeration or of the worker batch
\* leaves the cache file as it was and returns no result.
C20_CacheReadOnceWrittenOnce ==
    [](CacheReadAtMostOnce) /\ [][CacheWrittenAtReturn /\ AbortKeepsCache]_vars

(***************************************************************************)
(* The hit test and the hash modes                                         *)
(***************************************************************************)

\* Scan h admitted q: it was yielded, it passed the filters, its stat
\* succeeded, it is no link left unfollowed, it is within max_file_size and
\* is_text_file accepted it
Admitted(h, q) ==
    /\ q \in h.yielded
    /\ PassesFilters(q, h.cfg)
    /\ h.start_fs[q].link = "none" \/ (h.start_fs[q].link = "file" /\ h.cfg.follow_symlinks)
    /\ ByteLen(h.start_fs[q].content) <= h.cfg.max_file_size
    /\ is_text_file(q, h.start_fs[q])

\* The cache scan h loaded holds an entry for q with the mtime and the size
\* of the file
EntryMatches(h, q) ==
    /\ q \in DOMAIN h.loaded
    /\ Get(h.loaded[q], "mtime") = Some(h.start_fs[q].mtime)
    /\ Get(h.loaded[q], "size") = Some(ByteLen(h.start_fs[q].content))

\* C21: in hash mode mtime an admitted candidate is a cache hit (a
\* FileRecord with the cached tokens, counted in cache_hits, no task, no
\* read) if and only if the loaded cache holds an entry for its path whose
\* mtime and size equal those of the stat; otherwise it is a task.
C21_MtimeHitIffEntryMatches ==
    (last # None /\ last[1].cfg.hash_mode = "mtime") =>
        /\ \A q \in DOMAIN last[1].start_fs :
               Admitted(last[1], q) =>
                   IF EntryMatches(last[1], q)
                   THEN /\ q \in last[1].hits
                        /\ q \notin last[1].tasks
                        /\ q \notin DOMAIN last[1].read_log
                        /\ Count(last[1].result.files, q) = 1
                        /\ RecordOf(last[1].result.files, q).tokens
                               = last[1].loaded[q].tokens
                   ELSE q \in last[1].tasks /\ q \notin last[1].hits
        /\ last[1].result.cache_hits = Cardinality(last[1].hits)
        /\ last[1].result.cache_misses = Cardinality(last[1].tasks)

\* A scan in hash mode mtime took one file as a hit and dispatched another,
\* for which the loaded cache held an entry of another mtime
C21_Witness ==
    /\ last # None
    /\ last[1].cfg.hash_mode = "mtime"
    /\ \E q \in last[1].hits : Admitted(last[1], q) /\ EntryMatches(last[1], q)
    /\ \E q \in last[1].tasks :
           /\ Admitted(last[1], q)
           /\ q \in DOMAIN last[1].loaded
           /\ ~EntryMatches(last[1], q)

\* C22 (as stated): in hash mode fast a candidate that passes the hit test
\* is still read from disk during the scan, its fast digest recomputed from
\* the current content, while its token count comes from the cache entry.
C22_FastHitIsRead ==
    (last # None /\ last[1].cfg.hash_mode = "fast") =>
        \A q \in DOMAIN last[1].start_fs :
            (Admitted(last[1], q) /\ EntryMatches(last[1], q)) =>
                /\ q \in DOMAIN last[1].read_log
                /\ RecordOf(last[1].result.files, q).tokens = last[1].loaded[q].tokens
                /\ RecordOf(last[1].result.files, q).content_hash
                       = hash_data_fast(last[1].start_fs[q].content)

\* C22: in hash mode fast a candidate that passes the hit test and whose
\* entry carries a content_hash is not read: its token count and its fast
\* digest are both those of the cache entry, so the digest is that of the
\* content the entry was computed from; a matching entry without a
\* content_hash makes the candidate a task.
C22_FastHitReusesDigest ==
    (last # None /\ last[1].cfg.hash_mode = "fast") =>
        \A q \in DOMAIN last[1].start_fs :
            (Admitted(last[1], q) /\ EntryMatches(last[1], q)) =>
                IF HasHash(last[1].loaded[q])
                THEN /\ q \in last[1].hits
                     /\ q \notin last[1].tasks
                     /\ q \notin DOMAIN last[1].read_log
                     /\ RecordOf(last[1].result.files, q).tokens
                            = last[1].loaded[q].tokens
                     /\ RecordOf(last[1].result.files, q).content_hash
                            = last[1].loaded[q].content_hash
                ELSE q \in last[1].tasks /\ q \notin last[1].hits

\* A scan in hash mode fast took as a hit, without reading it, a file whose
\* content is no longer the one its digest was computed from
C22_Witness ==
    /\ last # None
    /\ last[1].cfg.hash_mode = "fast"
    /\ \E q \in last[1].hits :
           /\ q \notin DOMAIN last[1].read_log
           /\ RecordOf(last[1].result.files, q).content_hash
                  # hash_data_fast(last[1].start_fs[q].content)

\* C23: at the end of a scan every FileRecord, and with the cache enabled
\* every entry of the written cache, carries a content_hash if and only if
\* the hash mode is fast or full; under mtime none does, from a hit or from
\* a task.
C23_HashFieldFollowsMode ==
    last # None =>
        /\ \A i \in DOMAIN last[1].result.files :
               HasHash(last[1].result.files[i]) <=> last[1].cfg.hash_mode \in {"fast", "full"}
        /\ last[1].saved # None =>
               \A q \in DOMAIN last[1].saved[1].files :
                   HasHash(last[1].saved[1].files[q])
                       <=> last[1].cfg.hash_mode \in {"fast", "full"}

\* A scan in hash mode fast with the cache enabled built records from a hit
\* and from a task, after a scan that did the same in another state of the
\* tree
C23_Witness ==
    /\ last # None
    /\ last[1].cfg.hash_mode = "fast"
    /\ last[1].saved # None
    /\ \E q \in last[1].hits : q \in DOMAIN last[1].saved[1].files
    /\ \E q \in last[1].tasks : q \in DOMAIN last[1].saved[1].files

\* The loaded entry of q matches the stat and stores no content_hash
MatchesWithoutHash(h, q) ==
    Admitted(h, q) /\ EntryMatches(h, q) /\ ~HasHash(h.loaded[q])

\* C24 (as stated): in hash mode fast or full a candidate whose entry
\* matches mtime and size but stores no content_hash is not a hit: it is a
\* task, and the cache written by that scan holds a content_hash for it.
C24_BackfillAlwaysStored ==
    (last # None /\ last[1].cfg.hash_mode \in {"fast", "full"}) =>
        \A q \in DOMAIN last[1].start_fs :
            MatchesWithoutHash(last[1], q) =>
                /\ q \in last[1].tasks
                /\ q \notin last[1].hits
                /\ last[1].saved # None =>
                       /\ q \in DOMAIN last[1].saved[1].files
                       /\ HasHash(last[1].saved[1].files[q])

\* C24: in hash mode fast or full a candidate whose entry matches mtime
\* and size but stores no content_hash is not a hit: it is a task; when the
\* task gives a FileRecord the written cache holds the content_hash of what
\* the task read, and when it gives a SkipRecord the written cache holds no
\* entry for the path.
C24_BackfillWhenTaskSucceeds ==
    (last # None /\ last[1].cfg.hash_mode \in {"fast", "full"}) =>
        \A q \in DOMAIN last[1].start_fs :
            MatchesWithoutHash(last[1], q) =>
                /\ q \in last[1].tasks
                /\ q \notin last[1].hits
                /\ last[1].saved # None =>
                       IF Count(last[1].result.files, q) = 1
                       THEN /\ q \in DOMAIN last[1].saved[1].files
                            /\ HasHash(last[1].saved[1].files[q])
                            /\ last[1].saved[1].files[q].content_hash =
                                   (IF last[1].cfg.hash_mode = "full"
                                    THEN hash_bytes(last[1].read_log[q])
                                    ELSE hash_data_fast(last[1].read_log[q]))
                       ELSE /\ q \notin DOMAIN last[1].saved[1].files
                            /\ Count(last[1].result.skipped, q) = 1

\* A scan in hash mode fast found entries without a content_hash, re-read
\* the files and stored the digest of one of them
C24_Witness ==
    /\ last # None
    /\ last[1].cfg.hash_mode = "fast"
    /\ \E q \in DOMAIN last[1].start_fs :
           /\ MatchesWithoutHash(last[1], q)
           /\ q \in last[1].tasks
           /\ last[1].saved # None
           /\ q \in DOMAIN last[1].saved[1].files
           /\ HasHash(last[1].saved[1].files[q])

\* The files a finished scan admitted
AdmittedSet(h) == {q \in DOMAIN h.start_fs : Admitted(h, q)}

\* C25: in hash mode full no candidate is a cache hit, whatever the cache
\* holds: every admitted file is a task and is read again, cache_hits = 0
\* and cache_misses is the number of admitted files.
C25_FullModeNeverHits ==
    (last # None /\ last[1].cfg.hash_mode = "full") =>
        /\ last[1].hits = {}
        /\ last[1].result.cache_hits = 0
        /\ last[1].tasks = AdmittedSet(last[1])
        /\ last[1].result.cache_misses = Cardinality(AdmittedSet(last[1]))
        /\ \A q \in AdmittedSet(last[1]) :
               /\ q \in DOMAIN last[1].read_log
               /\ Count(last[1].result.files, q) = 1 =>
                      \A i \in DOMAIN last[1].result.files :
                          last[1].result.files[i].path = q =>
                              last[1].result.files[i].tokens = Measured(q)

\* A scan in hash mode full found a matching entry with a content_hash for
\* every admitted file and still ran a task for each
C25_Witness ==
    /\ last # None
    /\ last[1].cfg.hash_mode = "full"
    /\ AdmittedSet(last[1]) # {}
    /\ \A q \in AdmittedSet(last[1]) :
           EntryMatches(last[1], q) /\ HasHash(last[1].loaded[q])
    /\ last[1].result.cache_misses = Cardinality(AdmittedSet(last[1]))

\* The token count of the content p has now
CurrentTokens(p) ==
    count_tokens(decode_text(fs[p].content), cfg.tokenizer, cfg.encoding_name)

\* Entry e of path p has the modification time and size p has now
MatchesNow(e, p) ==
    /\ p \in DOMAIN fs
    /\ fs[p].link = "none"
    /\ e.mtime = fs[p].mtime
    /\ e.size = ByteLen(fs[p].content)

\* No entry, loaded, being collected or on disk, has the current
\* modification time and size of its file and tokens of another content
NoStaleEntryMatches ==
    /\ \A p \in DOMAIN cache_files :
           MatchesNow(cache_files[p], p) => cache_files[p].tokens = CurrentTokens(p)
    /\ \A p \in DOMAIN new_cache_files :
           MatchesNow(new_cache_files[p], p) => new_cache_files[p].tokens = CurrentTokens(p)
    /\ cache_file.link # "absent" =>
           \A p \in DOMAIN cache_file.content.data.files :
               MatchesNow(cache_file.content.data.files[p], p) =>
                   cache_file.content.data.files[p].tokens = CurrentTokens(p)

\* An iteration that accepts a hit appends a FileRecord with the token
\* count of the content the file has at that moment
HitIsCurrent ==
    (pc = "walk" /\ cache_hits' = cache_hits + 1) =>
        LET rec == files'[Len(files')]
        IN  rec.tokens = CurrentTokens(rec.path)

\* C26: when every write gives a file a modification time and size pair it
\* never had, then, with files written while scans run (between the stat of
\* the walk and the read of the task), every cache hit of every scan
\* reports the token count of the content the file has at the hit, and no
\* entry pairing an old mtime and size with tokens of newer content passes
\* the hit test.
C26_HitsAreCurrentUnderRaces ==
    [](NoStaleEntryMatches) /\ [][HitIsCurrent]_vars

\* A file was written between its stat and the read of its task in the
\* scan before the latest one: the entry stored the old size with the
\* tokens of the new content, and the latest scan, with unchanged files
\* served from the cache, refused that entry and ran a task
C26_Witness ==
    /\ prev # None
    /\ last # None
    /\ last[1].hits # {}
    /\ \E q \in DOMAIN prev[1].read_log :
           /\ \E i \in DOMAIN prev[1].result.files :
                  /\ prev[1].result.files[i].path = q
                  /\ prev[1].result.files[i].size_bytes # ByteLen(prev[1].read_log[q])
           /\ q \in DOMAIN last[1].loaded
           /\ last[1].loaded[q].size # ByteLen(last[1].start_fs[q].content)
           /\ last[1].loaded[q].tokens =
                  count_tokens(decode_text(last[1].start_fs[q].content),
                               last[1].cfg.tokenizer, last[1].cfg.encoding_name)
           /\ last[1].loaded[q].tokens #
                  count_tokens(decode_text(prev[1].start_fs[q].content),
                               prev[1].cfg.tokenizer, prev[1].cfg.encoding_name)
           /\ q \in last[1].tasks

\* C27: the cache file a scan writes at default_cache_path(root) is no
\* FileRecord of a later scan of that root, so the write of the cache
\* leaves the scan_hash and the module_hashes of the next scan as they
\* would be without it.
C27_OwnCacheNeverListed ==
    last # None =>
        /\ default_cache_path \notin Paths(last[1].result.files)
        /\ last[1].result.scan_hash =
               compute_scan_hash(SelectSeq(last[1].result.files,
                                           LAMBDA r : r.path \in UserPaths))
        /\ DOMAIN last[1].result.module_hashes =
               {group_label(q, last[1].cfg.module_depth) :
                   q \in Paths(last[1].result.files) \cap UserPaths}

\* The task of q in scan h ended in a SkipRecord
TaskSkipped(h, q) == q \in h.tasks /\ Count(h.result.skipped, q) = 1

\* C28: a file whose task ends in a SkipRecord has no entry in the cache
\* the scan writes; while the file stays as it is, the next scan dispatches
\* it as a task again and counts it in cache_misses, in every hash mode.
C28_SkippedTaskIsRetried ==
    /\ last # None =>
           \A q \in last[1].tasks :
               (TaskSkipped(last[1], q) /\ last[1].saved # None) =>
                   q \notin DOMAIN last[1].saved[1].files
    /\ (last # None /\ prev # None) =>
           \A q \in prev[1].tasks :
               (TaskSkipped(prev[1], q) /\ SameFile(q)) =>
                   /\ q \notin DOMAIN last[1].loaded
                   /\ q \notin last[1].hits
                   /\ TaskSkipped(last[1], q)
                   /\ last[1].result.cache_misses = Cardinality(last[1].tasks)
                   /\ last[1].result.cache_misses >= 1

\* Two scans in a row ran a task for the same unchanged file and skipped
\* it for its token count, the other file being a cache hit in the second
C28_Witness ==
    /\ last # None
    /\ prev # None
    /\ last[1].hits # {}
    /\ \E q \in prev[1].tasks :
           /\ TaskSkipped(prev[1], q)
           /\ SameFile(q)
           /\ TaskSkipped(last[1], q)
           /\ \E i \in DOMAIN last[1].result.skipped :
                  /\ last[1].result.skipped[i].path = q
                  /\ last[1].result.skipped[i].reason = "too_many_tokens"

\* The number of the last n commits of the history that name the path
Touches(h, path) ==
    Cardinality({k \in 1..Min(h.cfg.churn_commits, Len(h.cfg.git_log)) :
                    path \in Range(h.cfg.git_log[k])})

\* The list has its key in descending order
Descending(list, key) ==
    \A i, j \in DOMAIN list : i < j => list[i][key] >= list[j][key]

\* C29: every path of churn is the path of a FileRecord of the scan, its
\* commits value is the number of the last N commits that touched the
\* path, and churn is sorted by commits descending; when the scan admitted
\* no file, churn is empty.
C29_ChurnIsOfScannedFiles ==
    last # None =>
        LET churn == last[1].result.churn
        IN  /\ \A i \in DOMAIN churn :
                   /\ churn[i].path \in Paths(last[1].result.files)
                   /\ churn[i].commits = Touches(last[1], churn[i].path)
            /\ Descending(churn, "commits")
            /\ last[1].result.files = <<>> => churn = <<>>

\* C30: entrypoints has at most entrypoints_limit items, each matching
\* FileRecord at most once, sorted by tokens descending; with
\* entrypoints_limit = 0 it is empty, as top_files is with a limit of 0.
C30_EntrypointsWithinLimit ==
    last # None =>
        LET entrypoints == last[1].result.entrypoints
            top_files   == last[1].result.top_files
        IN  /\ Len(entrypoints) <= last[1].cfg.entrypoints_limit
            /\ Len(entrypoints) = Cardinality(Paths(entrypoints))
            /\ \A i \in DOMAIN entrypoints :
                   /\ entrypoints[i].path \in Paths(last[1].result.files)
                   /\ entry_pattern(entrypoints[i].path) # None
            /\ Descending(entrypoints, "tokens")
            /\ last[1].cfg.entrypoints_limit = 0 => entrypoints = <<>>
            /\ last[1].cfg.top_files_limit = 0 => top_files = <<>>

\* Contents a and b have one length and differ in a byte of the first or of
\* the last 4KB
DifferAtAnEdge(a, b) ==
    /\ ByteLen(a) = ByteLen(b)
    /\ \E k \in EdgeOffsets(ByteLen(a)) : a.bytes[k] # b.bytes[k]

\* C31: for every file length, two contents of equal size that differ in at
\* least one byte of the first 4KB or of the last 4KB have different
\* hash_data_fast values.
C31_FastDigestCoversBothEnds ==
    (probe # None /\ probe[1].fn = "hash_data_fast"
        /\ DifferAtAnEdge(probe[1].a, probe[1].b)) =>
        probe[1].out_a # probe[1].out_b

\* The built-in deny-list names the path: one of its patterns matches the
\* path or a directory above it, under gitignore rules
Denied(q) ==
    \/ match_file(q, DEFAULT_IGNORE_PATTERNS)
    \/ \E d \in AncestorDirs(q) : match_file(d, DEFAULT_IGNORE_PATTERNS)

\* C32: without the pathspec library the walk still applies every pattern
\* of the built-in deny-list: no file under a directory named by a
\* directory pattern and no file matching a file pattern is in files or
\* skipped.
C32_FallbackAppliesDenyList ==
    (last # None /\ ~last[1].cfg.pathspec /\ ~last[1].result.git_used) =>
        \A q \in DOMAIN last[1].start_fs :
            Denied(q) =>
                /\ q \notin Paths(last[1].result.files)
                /\ q \notin Paths(last[1].result.skipped)

\* The latest scan pushed the patterns down to the listing, the one before
\* it did not, and they agree on everything else
PushdownPair ==
    /\ last # None
    /\ prev # None
    /\ last[1].cfg.use_git
    /\ last[1].cfg.git_pathspec
    /\ prev[1].cfg = [last[1].cfg EXCEPT !.git_pathspec = FALSE]
    /\ prev[1].start_fs = last[1].start_fs

\* C33: in git-aware mode, for every list of include and exclude patterns,
\* the scan with pathspec pushdown returns the same files and skipped as
\* the scan without it.
C33_PushdownKeepsResult ==
    PushdownPair =>
        /\ last[1].result.files = prev[1].result.files
        /\ last[1].result.skipped = prev[1].result.skipped

\* q was a symbolic link, to a file or dangling, when scan h started
IsLink(h, q) == h.start_fs[q].link \in {"file", "broken"}

\* C34: with follow_symlinks off, every enumerated path that is a symbolic
\* link and passes the filters, its target missing or too large included,
\* is in skipped with reason symlink and is not in files.
C34_LinksSkippedAsSymlink ==
    (last # None /\ ~last[1].cfg.follow_symlinks) =>
        \A q \in last[1].yielded :
            (IsLink(last[1], q) /\ PassesFilters(q, last[1].cfg)) =>
                /\ RecordsOf(last[1].result.skipped, q) =
                       {[path |-> q, reason |-> "symlink"]}
                /\ q \notin Paths(last[1].result.files)

\* The probe counted without the exact encoder: heuristic mode, or the
\* encoder failed
CountedByHeuristic ==
    /\ probe # None
    /\ probe[1].fn = "count_tokens"
    /\ \/ probe[1].tokenizer # "tiktoken"
       \/ ~get_encoding_ok(probe[1].encoding_name)
       \/ encode_raises(decode_text(probe[1].data))

\* C35: in heuristic mode, and whenever the exact encoder fails, the token
\* count of a file is max(1, floor(byteLength / 4)), byteLength being the
\* number of bytes of its content, multi-byte characters and the empty
\* file included.
C35_HeuristicCountsBytes ==
    CountedByHeuristic => probe[1].out = Max(1, ByteLen(probe[1].data) \div 4)

PlanDone == planner # None /\ planner[1].pc = "done"

PlanEnded == planner # None /\ planner[1].pc \in {"done", "exit1"}

\* the places (bucket, group, position) at which the buckets hold file f
PlacesOf(f) ==
    {pl \in {<<b, g, k>> : b \in 1..4, g \in 1..4, k \in 1..4} :
        /\ pl[1] \in DOMAIN planner[1].buckets
        /\ pl[2] \in DOMAIN planner[1].buckets[pl[1]].groups
        /\ pl[3] \in DOMAIN planner[1].buckets[pl[1]].groups[pl[2]].files
        /\ planner[1].buckets[pl[1]].groups[pl[2]].files[pl[3]] = f}

PlacedCount ==
    SumOf([b \in DOMAIN planner[1].buckets |->
              SumOf([g \in DOMAIN planner[1].buckets[b].groups |->
                        Len(planner[1].buckets[b].groups[g].files)])])

EveryFilePlacedOnce ==
    PlanDone =>
        /\ \A i \in DOMAIN planner[1].files :
               Cardinality(PlacesOf(planner[1].files[i])) = 1
        /\ PlacedCount = Len(planner[1].files)

\* C36: once started, the planner always finishes (it reaches the end of
\* assign_groups, or exits with status 1 when the scan has no files), and when
\* it has finished, every input file is in exactly one group of exactly one
\* bucket and the buckets hold nothing else.
C36_EveryFileInOneGroupOfOneBucket ==
    /\ [](EveryFilePlacedOnce)
    /\ (planner # None) ~> PlanEnded

\* a finished plan in which a directory over the budget was split down to
\* single files and two groups share a bucket
C36_Witness ==
    /\ PlanDone
    /\ Len(planner[1].files) = 4
    /\ \E b \in DOMAIN planner[1].buckets : Len(planner[1].buckets[b].groups) >= 2
    /\ \E b \in DOMAIN planner[1].buckets : \E g \in DOMAIN planner[1].buckets[b].groups :
           planner[1].buckets[b].groups[g].label = PlanPaths[1]

GroupTokens(bucket) ==
    SumOf([g \in DOMAIN bucket.groups |-> bucket.groups[g].tokens])

\* a bucket of one group that is one file larger than the budget
LoneOversizedFile(bucket, max_tokens) ==
    /\ Len(bucket.groups) = 1
    /\ Len(bucket.groups[1].files) = 1
    /\ bucket.groups[1].files[1].tokens > max_tokens

\* C37: every bucket of the planner, while assign_groups builds it and when the
\* plan is finished, has tokens equal to the sum of the tokens of its groups,
\* and that total is at most max_tokens unless the bucket is exactly one group
\* of exactly one file whose own token count exceeds max_tokens.
C37_BucketsWithinBudget ==
    planner # None =>
        \A b \in DOMAIN planner[1].buckets :
            /\ planner[1].buckets[b].tokens = GroupTokens(planner[1].buckets[b])
            /\ \/ planner[1].buckets[b].tokens <= planner[1].max_tokens
               \/ LoneOversizedFile(planner[1].buckets[b], planner[1].max_tokens)

\* a finished plan with a bucket over the budget and a bucket of two groups
\* that fills the budget
C37_Witness ==
    /\ PlanDone
    /\ \E b \in DOMAIN planner[1].buckets :
           planner[1].buckets[b].tokens > planner[1].max_tokens
    /\ \E b \in DOMAIN planner[1].buckets :
           /\ Len(planner[1].buckets[b].groups) = 2
           /\ planner[1].buckets[b].tokens = planner[1].max_tokens

\* the steps of the mode in the fixed order
OrderedSteps(mode) ==
    SelectSeq(STEP_ORDER, LAMBDA s : \E i \in DOMAIN build_steps(mode) : build_steps(mode)[i] = s)

IsPrefix(s, t) == Len(s) <= Len(t) /\ s = SubSeq(t, 1, Len(s))

\* the steps started so far are the first steps of the mode, in the fixed
\* order; every step but the last started has ended with 0; a step that ended
\* otherwise is the last one started; and nothing is started after the user
\* declined
StartedInOrder ==
    /\ IsPrefix(orch[1].started, OrderedSteps(orch[1].mode))
    /\ Len(orch[1].started) - 1 <= Len(orch[1].codes)
    /\ Len(orch[1].codes) <= Len(orch[1].started)
    /\ \A k \in DOMAIN orch[1].codes :
           orch[1].codes[k] # 0 => k = Len(orch[1].started)
    /\ \A k \in DOMAIN orch[1].started :
           k > 1 => orch[1].codes[k - 1] = 0
    /\ orch[1].declined => orch[1].started = <<>> /\ orch[1].pc = "exited"

\* the returncode of the step that failed, if one has
FailedCode ==
    IF orch[1].codes # <<>> /\ orch[1].codes[Len(orch[1].codes)] # 0
    THEN Some(orch[1].codes[Len(orch[1].codes)]) ELSE None

\* C38 as stated: the steps are started in the fixed order, each after the
\* one before ended with 0; once a step has ended with another returncode
\* nothing more is started and the orchestrator has exited with that very
\* returncode; after a declined prompt no step is started.
C38_StepsInOrderExitWithStatus ==
    orch # None =>
        /\ StartedInOrder
        /\ FailedCode # None =>
               orch[1].pc = "exited" /\ orch[1].status = FailedCode

\* C38, amended: as above, but the exit status of the orchestrator is the
\* returncode of the failed step modulo 256: the same number for a step that
\* exited with 1..255, and 256 - N for a step ended by signal N.
C38_StepsInOrderExitWithStatusByte ==
    orch # None =>
        /\ StartedInOrder
        /\ FailedCode # None =>
               /\ orch[1].pc = "exited"
               /\ orch[1].status = Some(ExitStatus(FailedCode[1]))
               /\ FailedCode[1] \in 1..255 => orch[1].status = FailedCode

\* an update run in which the changes and the scan succeeded and the plan
\* failed with status 2
C38_Witness ==
    /\ orch # None
    /\ orch[1].mode = "update"
    /\ orch[1].started = <<"changes", "scan", "plan">>
    /\ orch[1].codes = <<0, 0, 2>>
    /\ orch[1].status = Some(2)

====
